---- MODULE Spec2Model ----
(***************************************************************************)
(* Amar-PDF: draft annotations over a zoomable page raster.                *)
(* The model follows src/pdf_editor.py (PDFEditor), src/ui/widgets/        *)
(* pdf_view_label.py (PDFViewLabel), src/models/*.py (the annotation       *)
(* variants), src/operations/pdf_operations.py (the save-time projector)   *)
(* and src/ui/windows/all_pages_window.py (page reorder and delete).       *)
(*                                                                         *)
(* Coordinates are Python floats.  The handlers divide and multiply by the *)
(* zoom ratio and truncate with int(), so rounding decides pixel           *)
(* positions; floats are therefore modelled as IEEE-754 binary64 values    *)
(* with round-to-nearest-even arithmetic, on mantissas held as limbs.      *)
(***************************************************************************)
EXTENDS Integers, Sequences, FiniteSets, TLC

\* evaluate e once and bind the value
Let1(F(_), e) == CHOOSE r \in {F(x) : x \in {e}} : TRUE
Let2(F(_, _), e1, e2) == CHOOSE r \in {F(x, y) : x \in {e1}, y \in {e2}} : TRUE

\* ---- natural numbers as little-endian sequences of 14-bit limbs ----
LimbBase == 128 * 128
P2 == <<1, 2, 4, 8, 16, 32, 64, 128, 256, 512, 1024, 2048, 4096, 8192, 16384>>
Pow2(k) == P2[k + 1]

Limb(a, i) == IF i \in 1..Len(a) THEN a[i] ELSE 0

RECURSIVE CarryAt(_, _, _)
CarryAt(s, i, c) ==
    IF i > Len(s) THEN (IF c = 0 THEN <<>> ELSE <<c % LimbBase>> \o CarryAt(s, i, c \div LimbBase))
    ELSE Let1(LAMBDA t : <<t % LimbBase>> \o CarryAt(s, i + 1, t \div LimbBase), s[i] + c)
Carry(s0) == Let1(LAMBDA s : CarryAt(s, 1, 0), s0 \o <<>>)

BitsOf(n) == Cardinality({k \in 1..15 : P2[k] <= n})
TopLimb(a) == IF \E i \in 1..Len(a) : a[i] # 0
              THEN CHOOSE i \in 1..Len(a) : a[i] # 0 /\ \A j \in (i + 1)..Len(a) : a[j] = 0
              ELSE 0
BitLen(a) == Let1(LAMBDA t : IF t = 0 THEN 0 ELSE 14 * (t - 1) + BitsOf(a[t]), TopLimb(a))
Strip(a) == SubSeq(a, 1, TopLimb(a))

MaxLen(a, b) == IF Len(a) > Len(b) THEN Len(a) ELSE Len(b)
BCmp(a, b) ==
    IF \A i \in 1..MaxLen(a, b) : Limb(a, i) = Limb(b, i) THEN 0
    ELSE Let1(LAMBDA t : IF Limb(a, t) > Limb(b, t) THEN 1 ELSE -1,
              CHOOSE i \in 1..MaxLen(a, b) :
                  Limb(a, i) # Limb(b, i) /\ \A j \in (i + 1)..MaxLen(a, b) : Limb(a, j) = Limb(b, j))

BAdd(a, b) == Carry([i \in 1..MaxLen(a, b) |-> Limb(a, i) + Limb(b, i)])

\* a - b for a >= b: add the LimbBase-complement of b and drop the final carry
BSub(a, b) ==
    SubSeq(Carry([i \in 1..Len(a) |->
                    a[i] + (LimbBase - 1 - Limb(b, i)) + (IF i = 1 THEN 1 ELSE 0)]), 1, Len(a))

MulSmall(a, q) == Carry([i \in 1..Len(a) |-> a[i] * q])

BMul(a, b) ==
    Carry([k \in 1..(Len(a) + Len(b) - 1) |->
             Limb(a, 1) * Limb(b, k) + Limb(a, 2) * Limb(b, k - 1)
           + Limb(a, 3) * Limb(b, k - 2) + Limb(a, 4) * Limb(b, k - 3)])

Zeros(n) == [i \in 1..n |-> 0]
BShl(a, n) == Zeros(n \div 14) \o MulSmall(a, Pow2(n % 14))
BShr(a, n) ==
    Let2(LAMBDA w, k :
           [i \in 1..(IF Len(a) > w THEN Len(a) - w ELSE 0) |->
              (Limb(a, i + w) \div Pow2(k)) + (Limb(a, i + w + 1) % Pow2(k)) * Pow2(14 - k)] \o <<>>,
         n \div 14, n % 14)
Bit(a, n) == (Limb(a, n \div 14 + 1) \div Pow2(n % 14)) % 2
LowNonzero(a, n) ==
    \/ \E i \in 1..(n \div 14) : Limb(a, i) # 0
    \/ Limb(a, n \div 14 + 1) % Pow2(n % 14) # 0

\* one quotient digit: floor(r / d) for r < d * LimbBase, d normalised (top limb >= LimbBase/2)
RECURSIVE FixDigit(_, _, _)
FixDigit(r, d, q) ==
    Let1(LAMBDA p : IF BCmp(p, r) > 0 THEN FixDigit(r, d, q - 1) ELSE <<q, Strip(BSub(r \o <<0>>, p))>>,
         MulSmall(d, q))
QDigit(r, d) ==
    Let1(LAMBDA est : FixDigit(r, d, IF est > LimbBase - 1 THEN LimbBase - 1 ELSE est),
         (Limb(r, Len(d) + 1) * LimbBase + Limb(r, Len(d))) \div d[Len(d)])

\* long division of r * LimbBase^k by d, r < d * LimbBase: <<quotient limbs, remainder>>
RECURSIVE LongDiv(_, _, _, _)
LongDiv(r0, d, k, acc0) ==
    Let2(LAMBDA r, acc :
           Let1(LAMBDA qr : IF k = 0 THEN <<(<<qr[1]>> \o acc), qr[2]>>
                            ELSE LongDiv(<<0>> \o qr[2], d, k - 1, <<qr[1]>> \o acc),
                QDigit(r, d)),
         r0, acc0)

\* ---- IEEE-754 binary64 values: <<sign, exponent, mantissa>>, value = sign * mantissa * 2^exponent,
\* ---- mantissa a 4-limb natural in [2^52, 2^53); zero is <<0, 0, <<0,0,0,0>>>>
FZero == <<0, 0, <<0, 0, 0, 0>>>>
Pad4(a) == <<Limb(a, 1), Limb(a, 2), Limb(a, 3), Limb(a, 4)>>

\* round sign * m * 2^e (plus a sticky residue below m) to nearest, ties to even
RoundUp(m, sh, sticky) ==
    Bit(m, sh - 1) = 1 /\ (LowNonzero(m, sh - 1) \/ sticky \/ Bit(m, sh) = 1)
RoundSh(s, m, e, sticky, sh) ==
    IF sh <= 0 THEN <<s, e + sh, Pad4(BShl(m, -sh))>>
    ELSE Let1(LAMBDA m1 : IF BitLen(m1) = 54 THEN <<s, e + sh + 1, Pad4(BShr(m1, 1))>>
                          ELSE <<s, e + sh, Pad4(m1)>>,
              IF RoundUp(m, sh, sticky) THEN BAdd(BShr(m, sh), <<1>>) ELSE BShr(m, sh))
Round(s, m0, e, sticky) ==
    Let1(LAMBDA m : Let1(LAMBDA len : IF len = 0 THEN FZero ELSE RoundSh(s, m, e, sticky, len - 53),
                         BitLen(m)),
         m0)

FromInt(n) ==
    IF n < 0 THEN Round(-1, <<(-n) % LimbBase, (-n) \div LimbBase>>, 0, FALSE)
    ELSE Round(1, <<n % LimbBase, n \div LimbBase>>, 0, FALSE)

FOne == <<1, -52, <<0, 0, 0, 1024>>>>
FMulV(a, b) ==
    IF a[1] = 0 \/ b[1] = 0 THEN FZero
    ELSE IF b = FOne THEN a
    ELSE IF a = FOne THEN b
    ELSE Round(a[1] * b[1], BMul(a[3], b[3]), a[2] + b[2], FALSE)
FMul(a, b) == Let2(FMulV, a, b)

FDivV(a, b) ==
    IF a[1] = 0 THEN FZero
    ELSE IF b = FOne THEN a
    ELSE IF a = b THEN FOne
    ELSE Let1(LAMBDA qr : Round(a[1] * b[1], qr[1], a[2] - b[2] - 56, qr[2] # <<>>),
              LongDiv(Pad4(BShl(a[3], 3)), Pad4(BShl(b[3], 3)), 4, <<>>))
FDiv(a, b) == Let2(FDivV, a, b)

FNeg(a) == Let1(LAMBDA v : <<-v[1], v[2], v[3]>>, a)

FAddAligned(hi, lo) ==
    Let2(LAMBDA mh, c :
           IF hi[1] = lo[1] THEN Round(hi[1], BAdd(mh, lo[3]), lo[2], FALSE)
           ELSE IF c = 0 THEN FZero
           ELSE IF c > 0 THEN Round(hi[1], BSub(mh, lo[3]), lo[2], FALSE)
           ELSE Round(lo[1], BSub(lo[3], mh), lo[2], FALSE),
         BShl(hi[3], hi[2] - lo[2]), BCmp(BShl(hi[3], hi[2] - lo[2]), lo[3]))
FAddV(a, b) ==
    IF a[1] = 0 THEN b
    ELSE IF b[1] = 0 THEN a
    ELSE IF a[2] >= b[2] THEN (IF a[2] - b[2] > 64 THEN a ELSE FAddAligned(a, b))
    ELSE (IF b[2] - a[2] > 64 THEN b ELSE FAddAligned(b, a))
FAdd(a, b) == Let2(FAddV, a, b)
FSub(a, b) == FAdd(a, FNeg(b))

\* Python int(): truncation toward zero (|value| < 2^28)
FTruncV(a) ==
    IF a[1] = 0 \/ a[2] <= -53 THEN 0
    ELSE Let1(LAMBDA t : a[1] * (Limb(t, 1) + Limb(t, 2) * LimbBase), BShr(a[3], -a[2]))
FTrunc(a) == Let1(FTruncV, a)

FLessV(a, b) ==
    IF a[1] # b[1] THEN a[1] < b[1]
    ELSE IF a[1] = 0 THEN FALSE
    ELSE Let1(LAMBDA c : IF a[1] = 1 THEN c < 0 ELSE c > 0,
              IF a[2] # b[2] THEN (IF a[2] < b[2] THEN -1 ELSE 1) ELSE BCmp(a[3], b[3]))
FLess(a, b) == Let2(FLessV, a, b)

\* ---- program constants ----
BASE_SCALE == <<1, -51, <<0, 0, 0, 1024>>>>
DEFAULT_ZOOM == FOne
EDGE_RESIZE_THRESHOLD == 10
MIN_ANNOTATION_SIZE == 10
TEXT_ANNOTATION_WIDTH_PADDING == 10
TEXT_ANNOTATION_HEIGHT_PADDING == 6
TEXT_ANNOTATION_Y_OFFSET == 4
DOODLE_PADDING == 10
DOODLE_FLOOR == 100
MIN_FONT_SIZE == 6
ZOOM_SLIDER_MIN == 25
ZOOM_SLIDER_MAX == 400
ZOOM_SLIDER_DEFAULT == 100
MAX_FONT_SIZE == 72
None == 0

\* ---- bounds of the model ----
MaxAnnotations == 2
MaxPages == 2
MaxEvents == 5
MaxPageEvents == 6
MaxEditorSteps == 4
MaxManaged == 2
MaxIndexSteps == 6
MaxWindows == 1
MaxMergePages == 1
ZoomValues == {100, 275}
Points == {<<11, 12>>, <<20, 20>>, <<30, 30>>, <<52, 30>>, <<30, 52>>, <<52, 52>>}
AddPoints == {<<11, 12>>, <<20, 20>>, <<30, 30>>}
TextPoints == {<<11, 12>>}
DoodlePoints == {<<30, 30>>}
ImageFiles == {"stamp.png"}
TextFormats == {[text |-> "Hi", font_family |-> "Arial", font_size |-> 12, bold |-> TRUE,
                 italic |-> FALSE,
                 underline |-> TRUE, strikethrough |-> TRUE]}
Drawings == {<< <<<<0, 0>>, <<50, 80>>>> >>}

VARIABLES
    handled,             \* number of events handled so far by the editor and its view
    page_events,         \* number of page events handled so far (navigation, merge, All Pages)
    doc,                 \* PDFEditor.doc: sequence of page ids, <<>> when no document is open
    current_page,        \* PDFEditor.current_page
    draft_annotations,   \* PDFEditor.draft_annotations: sequence of object ids
    zoom_level,          \* PDFEditor.zoom_level
    objects,             \* the annotation objects, by object id
    label_annotations,   \* PDFViewLabel.annotations: sequence of object ids
    label_zoom_level,    \* PDFViewLabel.zoom_level
    dragging_annotation, \* PDFViewLabel.dragging_annotation: object id or None
    drag_offset,         \* PDFViewLabel.drag_offset
    resizing_annotation, \* PDFViewLabel.resizing_annotation: object id or None
    resize_edge,         \* PDFViewLabel.resize_edge
    resize_start_pos,    \* PDFViewLabel.resize_start_pos
    windows,             \* the open All Pages windows
    event,               \* the last event handled: its type and pointer position, and what
                         \* was there before it: for a move the display rectangle of the moved
                         \* annotation, for a Confirm the document and the draft annotations
    written,             \* the writer calls applied to the document: its baked content
    twin,                \* a second run of the editor that gets the same opens, adds and saves
                         \* and its own zoom changes: [zoom_level, objects, written]
    manager,             \* AnnotationManager.annotations: sequence of annotation objects
    temp_files,          \* number of temporary files that save_pdf created and did not remove
    pressed              \* the last press: the annotation mousePressEvent stopped at (None
                         \* when it fell through), what it started, the point, the zoom and
                         \* the annotation's display position at that moment

vars == <<handled, page_events, doc, current_page, draft_annotations, zoom_level, objects, label_annotations,
          label_zoom_level, dragging_annotation, drag_offset, resizing_annotation,
          resize_edge, resize_start_pos, event, pressed, written, twin, windows, temp_files, manager>>

\* ---- collaborators: Qt font metrics and pixmaps ----
CharCount(text) == IF text = "Hi" THEN 2 ELSE 4
QFontMetrics_height(pointSize) == pointSize + (pointSize \div 2)
QFontMetrics_horizontalAdvance(text, pointSize) == CharCount(text) * ((pointSize + 1) \div 2)
QPixmap_size(image_path) == <<40, 30>>

\* ---- Annotation ----
get_zoom_ratio(a, current_zoom) == FDiv(current_zoom, a.created_at_zoom)

get_scaled_position(a, current_zoom) ==
    Let1(LAMBDA zoom_ratio : <<FMul(a.x, zoom_ratio), FMul(a.y, zoom_ratio)>>,
         get_zoom_ratio(a, current_zoom))

\* ---- TextAnnotation ----
get_qfont(a, zoom) == FTrunc(FMul(FMul(FromInt(a.font_size), BASE_SCALE), zoom))

update_bounds(a, zoom) ==
    IF a.type # "text" THEN a
    ELSE Let1(LAMBDA pointSize :
                [a EXCEPT !.width = FromInt(QFontMetrics_horizontalAdvance(a.text, pointSize)
                                            + TEXT_ANNOTATION_WIDTH_PADDING),
                          !.height = FromInt(QFontMetrics_height(pointSize)
                                             + TEXT_ANNOTATION_HEIGHT_PADDING)],
              get_qfont(a, zoom))

TextAnnotation_get_rect(a, current_zoom) ==
    Let2(LAMBDA pos, b :
           <<FTrunc(pos[1]),
             FTrunc(FAdd(FSub(pos[2], b.height), FromInt(TEXT_ANNOTATION_Y_OFFSET))),
             FTrunc(b.width), FTrunc(b.height)>>,
         get_scaled_position(a, current_zoom), update_bounds(a, current_zoom))

\* ---- ImageAnnotation, DoodleAnnotation ----
ImageAnnotation_get_rect(a, current_zoom) ==
    Let1(LAMBDA zoom_ratio :
           <<FTrunc(FMul(a.x, zoom_ratio)), FTrunc(FMul(a.y, zoom_ratio)),
             FTrunc(FMul(a.width, zoom_ratio)), FTrunc(FMul(a.height, zoom_ratio))>>,
         get_zoom_ratio(a, current_zoom))

get_rect(a, current_zoom) ==
    IF a.type = "text" THEN TextAnnotation_get_rect(a, current_zoom)
    ELSE ImageAnnotation_get_rect(a, current_zoom)

\* QRect(x, y, w, h): left = x, top = y, right = x + w - 1, bottom = y + h - 1
left(rect) == rect[1]
top(rect) == rect[2]
right(rect) == rect[1] + rect[3] - 1
bottom(rect) == rect[2] + rect[4] - 1
QRect_contains(rect, x, y) ==
    left(rect) <= x /\ x <= right(rect) /\ top(rect) <= y /\ y <= bottom(rect)

contains_point(a, x, y, current_zoom) == QRect_contains(get_rect(a, current_zoom), x, y)

Abs(n) == IF n < 0 THEN -n ELSE n
SetMax(S) == CHOOSE m \in S : \A n \in S : n <= m
SetMin(S) == CHOOSE m \in S : \A n \in S : m <= n
Max(a, b) == IF a > b THEN a ELSE b

StrokePoints(drawing_data) ==
    UNION {{drawing_data[k][i] : i \in 1..Len(drawing_data[k])} : k \in 1..Len(drawing_data)}
\* a variant that measures the first stroke only
calculate_bounds_first_stroke(drawing_data) ==
    IF drawing_data = <<>> THEN <<DOODLE_FLOOR, DOODLE_FLOOR>>
    ELSE LET xs == {drawing_data[1][i][1] : i \in 1..Len(drawing_data[1])}
             ys == {drawing_data[1][i][2] : i \in 1..Len(drawing_data[1])}
         IN <<Max(DOODLE_FLOOR, SetMax(xs) - SetMin(xs) + DOODLE_PADDING * 2),
              Max(DOODLE_FLOOR, SetMax(ys) - SetMin(ys) + DOODLE_PADDING * 2)>>
calculate_bounds(drawing_data) ==
    IF drawing_data = <<>> THEN <<DOODLE_FLOOR, DOODLE_FLOOR>>
    ELSE LET xs == {p[1] : p \in StrokePoints(drawing_data)}
             ys == {p[2] : p \in StrokePoints(drawing_data)}
         IN <<Max(DOODLE_FLOOR, SetMax(xs) - SetMin(xs) + DOODLE_PADDING * 2),
              Max(DOODLE_FLOOR, SetMax(ys) - SetMin(ys) + DOODLE_PADDING * 2)>>

\* ---- PDFViewLabel ----
\* a variant that lets every kind of annotation be resized
resizable_any(a) == TRUE
\* only images and doodles have resize edges
resizable(a) == a.type \in {"image", "doodle"}

\* a variant that tests the horizontal edges first: Top, Bottom, Left, Right
get_resize_edge_top_first(a, x, y, zoom) ==
    IF ~resizable(a) THEN "none"
    ELSE Let1(LAMBDA rect :
                IF Abs(y - top(rect)) < EDGE_RESIZE_THRESHOLD
                   /\ left(rect) <= x /\ x <= right(rect)
                THEN "top"
                ELSE IF Abs(y - bottom(rect)) < EDGE_RESIZE_THRESHOLD
                        /\ left(rect) <= x /\ x <= right(rect)
                THEN "bottom"
                ELSE IF Abs(x - left(rect)) < EDGE_RESIZE_THRESHOLD
                        /\ top(rect) <= y /\ y <= bottom(rect)
                THEN "left"
                ELSE IF Abs(x - right(rect)) < EDGE_RESIZE_THRESHOLD
                        /\ top(rect) <= y /\ y <= bottom(rect)
                THEN "right"
                ELSE "none",
              get_rect(a, zoom))
get_resize_edge(a, x, y, zoom) ==
    IF ~resizable(a) THEN "none"
    ELSE Let1(LAMBDA rect :
                IF Abs(x - left(rect)) < EDGE_RESIZE_THRESHOLD /\ top(rect) <= y /\ y <= bottom(rect)
                THEN "left"
                ELSE IF Abs(x - right(rect)) < EDGE_RESIZE_THRESHOLD
                        /\ top(rect) <= y /\ y <= bottom(rect)
                THEN "right"
                ELSE IF Abs(y - top(rect)) < EDGE_RESIZE_THRESHOLD
                        /\ left(rect) <= x /\ x <= right(rect)
                THEN "top"
                ELSE IF Abs(y - bottom(rect)) < EDGE_RESIZE_THRESHOLD
                        /\ left(rect) <= x /\ x <= right(rect)
                THEN "bottom"
                ELSE "none",
              get_rect(a, zoom))

\* paintEvent calls get_rect on every annotation of the label; for a text annotation that
\* re-measures and stores its width and height at the label's zoom
paintEvent(objs, anns, zoom) ==
    [id \in 1..Len(objs) |->
        IF \E k \in 1..Len(anns) : anns[k] = id THEN update_bounds(objs[id], zoom) ELSE objs[id]]
    \o <<>>

\* the annotations of the label that contain the point, in list order
HitPositions(x, y) ==
    {k \in 1..Len(label_annotations) :
        contains_point(objects[label_annotations[k]], x, y, label_zoom_level)}

\* every handler counts as one event; the exploration stops after MaxEvents of them
\* (temporary files are created by save_pdf only)
Step == handled < MaxEvents /\ handled' = handled + 1 /\ UNCHANGED page_events
Tick == Step /\ UNCHANGED <<temp_files, manager>>

NoPress == [annotation |-> None, mode |-> "none", x |-> 0, y |-> 0, zoom |-> FZero, pos |-> <<>>]

\* mousePressEvent: the first annotation of the list that contains the point is taken,
\* for resizing when the point is near one of its edges, for dragging otherwise
MousePress(x, y) ==
    Let1(LAMBDA hits :
           IF hits = {} THEN [hit |-> None, edge |-> "none", offset |-> drag_offset, pos |-> <<>>]
           ELSE Let1(LAMBDA a :
                       Let2(LAMBDA edge, pos :
                              [hit |-> label_annotations[SetMin(hits)], edge |-> edge,
                               offset |-> <<x - FTrunc(pos[1]), y - FTrunc(pos[2])>>,
                               pos |-> <<FTrunc(pos[1]), FTrunc(pos[2])>>],
                            get_resize_edge(a, x, y, label_zoom_level),
                            get_scaled_position(a, label_zoom_level)),
                     objects[label_annotations[SetMin(hits)]]),
         HitPositions(x, y))

mousePressEvent(x, y) ==
    /\ Tick
    /\ doc # <<>>
    /\ \E res \in {MousePress(x, y)} :
         /\ pressed' = IF res.hit = None THEN NoPress
                       ELSE [annotation |-> res.hit,
                             mode |-> IF res.edge # "none" THEN "resize" ELSE "drag",
                             x |-> x, y |-> y, zoom |-> label_zoom_level, pos |-> res.pos]
         /\ IF res.hit # None /\ res.edge # "none"
            THEN /\ resizing_annotation' = res.hit
                 /\ resize_edge' = res.edge
                 /\ resize_start_pos' = <<x, y>>
                 /\ UNCHANGED <<dragging_annotation, drag_offset>>
            ELSE IF res.hit # None
            THEN /\ dragging_annotation' = res.hit
                 /\ drag_offset' = res.offset
                 /\ UNCHANGED <<resizing_annotation, resize_edge, resize_start_pos>>
            ELSE UNCHANGED <<dragging_annotation, drag_offset, resizing_annotation,
                             resize_edge, resize_start_pos>>
    /\ event' = [type |-> "press", x |-> x, y |-> y, before |-> <<>>]
    /\ UNCHANGED <<doc, current_page, draft_annotations, zoom_level, objects,
                   label_annotations, label_zoom_level, written, twin>>
    /\ UNCHANGED windows

\* the size a resize move asks for, in creation space
new_size(a, edge, dx, dy, zoom_ratio) ==
    CASE edge = "right" -> FAdd(a.width, FDiv(FromInt(dx), zoom_ratio))
      [] edge = "left" -> FSub(a.width, FDiv(FromInt(dx), zoom_ratio))
      [] edge = "bottom" -> FAdd(a.height, FDiv(FromInt(dy), zoom_ratio))
      [] edge = "top" -> FSub(a.height, FDiv(FromInt(dy), zoom_ratio))

\* a variant that forgets the minimum: any positive size is applied
resize_applies_positive(size) == FLess(FZero, size)
\* the move is applied only when the new size is above MIN_ANNOTATION_SIZE
resize_applies(size) == FLess(FromInt(MIN_ANNOTATION_SIZE), size)

resize(a, edge, dx, dy, zoom_ratio) ==
    Let1(LAMBDA size :
           IF ~resize_applies(size) THEN a
           ELSE CASE edge = "right" -> [a EXCEPT !.width = size]
                  [] edge = "left" ->
                       [a EXCEPT !.x = FAdd(a.x, FDiv(FromInt(dx), zoom_ratio)), !.width = size]
                  [] edge = "bottom" -> [a EXCEPT !.height = size]
                  [] edge = "top" ->
                       [a EXCEPT !.y = FAdd(a.y, FDiv(FromInt(dy), zoom_ratio)), !.height = size],
         new_size(a, edge, dx, dy, zoom_ratio))

drag(a, x, y, offset, zoom_ratio) ==
    [a EXCEPT !.x = FDiv(FromInt(x - offset[1]), zoom_ratio),
              !.y = FDiv(FromInt(y - offset[2]), zoom_ratio)]

MouseMove(x, y) ==
    IF resizing_annotation # None
    THEN Let2(LAMBDA a, zoom_ratio :
                Let1(LAMBDA size :
                       [objs |-> [objects EXCEPT ![resizing_annotation] =
                                     resize(a, resize_edge, x - resize_start_pos[1],
                                            y - resize_start_pos[2], zoom_ratio)],
                        start |-> IF resize_applies(size) THEN <<x, y>> ELSE resize_start_pos],
                     new_size(a, resize_edge, x - resize_start_pos[1],
                              y - resize_start_pos[2], zoom_ratio)),
              objects[resizing_annotation],
              get_zoom_ratio(objects[resizing_annotation], label_zoom_level))
    ELSE Let2(LAMBDA a, zoom_ratio :
                [objs |-> [objects EXCEPT ![dragging_annotation] =
                              drag(a, x, y, drag_offset, zoom_ratio)],
                 start |-> resize_start_pos],
              objects[dragging_annotation],
              get_zoom_ratio(objects[dragging_annotation], label_zoom_level))

mouseMoveEvent(x, y) ==
    /\ Tick
    /\ doc # <<>>
    /\ resizing_annotation # None \/ dragging_annotation # None
    /\ \E res \in {MouseMove(x, y)} :
         /\ objects' = paintEvent(res.objs, label_annotations, label_zoom_level)
         /\ resize_start_pos' = res.start
    /\ event' = [type |-> "move", x |-> x, y |-> y,
                 before |-> get_rect(objects[IF resizing_annotation # None
                                           THEN resizing_annotation ELSE dragging_annotation],
                                   label_zoom_level)]
    /\ UNCHANGED <<doc, current_page, draft_annotations, zoom_level, label_annotations,
                   label_zoom_level, dragging_annotation, drag_offset, resizing_annotation,
                   resize_edge, pressed, written, twin>>
    /\ UNCHANGED windows

mouseReleaseEvent ==
    /\ Tick
    /\ doc # <<>>
    /\ IF resizing_annotation # None
       THEN /\ resizing_annotation' = None
            /\ resize_edge' = "none"
            /\ UNCHANGED dragging_annotation
       ELSE IF dragging_annotation # None
       THEN /\ dragging_annotation' = None
            /\ UNCHANGED <<resizing_annotation, resize_edge>>
       ELSE UNCHANGED <<dragging_annotation, resizing_annotation, resize_edge>>
    /\ event' = [type |-> "release", x |-> 0, y |-> 0, before |-> <<>>]
    /\ UNCHANGED <<doc, current_page, draft_annotations, zoom_level, objects,
                   label_annotations, label_zoom_level, drag_offset, resize_start_pos,
                   pressed, written, twin>>
    /\ UNCHANGED windows

\* ---- PDFEditor ----
\* a variant that keeps the list
no_annotations_kept == draft_annotations
\* self.draft_annotations = [], and the list show_page gives the label then
no_annotations == <<>>
\* the document object of a window: the one the editor holds while the window is attached,
\* else the pages it had when the editor let go of it
original_doc(w) == IF w.attached THEN doc ELSE w.original_pages
\* the editor lets go of its document object (closed or not): attached windows keep it
Detach(ws, closed) ==
    [i \in 1..Len(ws) |->
        IF ws[i].attached
        THEN [ws[i] EXCEPT !.attached = FALSE, !.original_pages = doc, !.closed = closed]
        ELSE ws[i]] \o <<>>
SeqRange(s) == {s[i] : i \in 1..Len(s)}
\* k pages of a file: page ids that no document in use has
FreshPages(ws, d, k) ==
    LET used == SeqRange(d) \cup UNION {SeqRange(ws[i].doc) \cup SeqRange(ws[i].original_pages)
                                          : i \in 1..Len(ws)}
        m == IF used = {} THEN 0 ELSE SetMax(used)
    IN [i \in 1..k |-> m + i] \o <<>>

annotations_of_page(page_num) ==
    SelectSeq(draft_annotations, LAMBDA id : objects[id].page_num = page_num)

is_clicking_annotation(x, y) ==
    \E k \in 1..Len(label_annotations) :
        contains_point(objects[label_annotations[k]], x, y, zoom_level)

open_pdf(n) ==
    /\ Tick
    /\ doc' = FreshPages(Detach(windows, FALSE), <<>>, n)
    /\ current_page' = 0
    /\ draft_annotations' = no_annotations
    /\ label_annotations' = SelectSeq(no_annotations, LAMBDA id : objects[id].page_num = 0)
    /\ label_zoom_level' = zoom_level
    /\ event' = [type |-> "open", x |-> 0, y |-> 0, before |-> <<>>]
    /\ written' = <<>>
    /\ twin' = [twin EXCEPT !.written = <<>>]
    /\ UNCHANGED <<zoom_level, objects, dragging_annotation, drag_offset,
                   resizing_annotation, resize_edge, resize_start_pos, pressed>>
    /\ windows' = Detach(windows, FALSE)

\* a variant that divides the slider value as integers
slider_zoom_floor(value) == FromInt(value \div 100)
\* value / 100.0
slider_zoom(value) == FDiv(FromInt(value), FromInt(100))

on_zoom_changed(value) ==
    /\ Tick
    /\ \E z \in {slider_zoom(value)} :
         /\ zoom_level' = z
         /\ IF doc # <<>>
            THEN \E anns \in {annotations_of_page(current_page)} :
                   /\ label_annotations' = anns
                   /\ label_zoom_level' = z
                   /\ objects' = paintEvent(objects, anns, z)
            ELSE UNCHANGED <<label_annotations, label_zoom_level, objects>>
    /\ event' = [type |-> "zoom", x |-> 0, y |-> 0, before |-> <<>>]
    /\ UNCHANGED <<doc, current_page, draft_annotations, dragging_annotation, drag_offset,
                   resizing_annotation, resize_edge, resize_start_pos, pressed, written,
                   twin>>
    /\ UNCHANGED windows

\* an annotation as constructed, before the editor sets created_at_zoom
TextAnnotation(x, y, page_num, f) ==
    update_bounds([type |-> "text", x |-> FromInt(x), y |-> FromInt(y), page_num |-> page_num,
                   created_at_zoom |-> FOne, width |-> FZero, height |-> FZero,
                   text |-> f.text, font_family |-> f.font_family,
                   font_size |-> f.font_size, bold |-> f.bold,
                   italic |-> f.italic, underline |-> f.underline,
                   strikethrough |-> f.strikethrough], FOne)
ImageAnnotation(x, y, page_num, image_path) ==
    [type |-> "image", x |-> FromInt(x), y |-> FromInt(y), page_num |-> page_num,
     created_at_zoom |-> FOne, width |-> FromInt(QPixmap_size(image_path)[1]),
     height |-> FromInt(QPixmap_size(image_path)[2]), image_path |-> image_path]
DoodleAnnotation(x, y, page_num, drawing_data) ==
    [type |-> "doodle", x |-> FromInt(x), y |-> FromInt(y), page_num |-> page_num,
     created_at_zoom |-> FOne, width |-> FromInt(calculate_bounds(drawing_data)[1]),
     height |-> FromInt(calculate_bounds(drawing_data)[2]), drawing_data |-> drawing_data]

\* PDFEditor.mousePressEvent in a mode, when the press is on no annotation of the label and
\* the dialog is confirmed: add_draft_text / add_draft_image / add_draft_doodle
add_draft(x, y, annotation) ==
    /\ Tick
    /\ doc # <<>>
    /\ Len(objects) < MaxAnnotations
    /\ ~is_clicking_annotation(x, y)
    /\ \E objs \in {Append(objects, [annotation EXCEPT !.created_at_zoom = zoom_level])} :
         /\ objects' = paintEvent(objs, Append(label_annotations, Len(objs)), label_zoom_level)
         /\ draft_annotations' = Append(draft_annotations, Len(objs))
         /\ label_annotations' = Append(label_annotations, Len(objs))
         \* the second run is at the same zoom when the annotation is placed
         /\ twin' = [twin EXCEPT !.zoom_level = zoom_level,
                                  !.objects =
                         paintEvent(Append(@, objs[Len(objs)]),
                                    Append(label_annotations, Len(objs)), zoom_level)]
    /\ event' = [type |-> "add", x |-> x, y |-> y, before |-> <<>>]
    /\ pressed' = NoPress
    /\ UNCHANGED <<doc, current_page, zoom_level, label_zoom_level, dragging_annotation,
                   drag_offset, resizing_annotation, resize_edge, resize_start_pos, written>>
    /\ UNCHANGED windows

add_draft_text(x, y, text_format) == add_draft(x, y, TextAnnotation(x, y, current_page, text_format))
add_draft_image(x, y, image_path) == add_draft(x, y, ImageAnnotation(x, y, current_page, image_path))
add_draft_doodle(x, y, drawing_data) ==
    add_draft(x, y, DoodleAnnotation(x, y, current_page, drawing_data))

Init ==
    /\ handled = 0
    /\ doc = <<>>
    /\ current_page = 0
    /\ draft_annotations = <<>>
    /\ zoom_level = DEFAULT_ZOOM
    /\ objects = <<>>
    /\ label_annotations = <<>>
    /\ label_zoom_level = FOne
    /\ dragging_annotation = None
    /\ drag_offset = <<0, 0>>
    /\ resizing_annotation = None
    /\ resize_edge = "none"
    /\ resize_start_pos = <<0, 0>>
    /\ event = [type |-> "none", x |-> 0, y |-> 0, before |-> <<>>]
    /\ pressed = NoPress
    /\ written = <<>>
    /\ twin = [zoom_level |-> DEFAULT_ZOOM, objects |-> <<>>, written |-> <<>>]
    /\ windows = <<>>
    /\ page_events = 0
    /\ temp_files = 0
    /\ manager = <<>>

\* ---- the pointer handlers of the view, on a one-page document ----
NextPointer ==
    \/ open_pdf(1)
    \/ \E v \in ZoomValues : on_zoom_changed(v)
    \/ \E p \in TextPoints, f \in TextFormats : add_draft_text(p[1], p[2], f)
    \/ \E p \in AddPoints, f \in ImageFiles : add_draft_image(p[1], p[2], f)
    \/ \E p \in DoodlePoints, d \in Drawings : add_draft_doodle(p[1], p[2], d)
    \/ \E p \in Points : mousePressEvent(p[1], p[2])
    \/ \E p \in Points : mouseMoveEvent(p[1], p[2])
    \/ mouseReleaseEvent

SpecPointer == Init /\ [][NextPointer]_vars

\* ---- PDFOperations.save_pdf_with_annotations ----
X_PADDING == <<1, -50, <<0, 0, 0, 1280>>>>                       \* 5.0
BASELINE_FRACTION == <<1, -53, <<3277, 13107, 3276, 1331>>>>     \* 0.65
UNDERLINE_OFFSET == <<1, -52, <<0, 0, 0, 1536>>>>                \* 1.5
STRIKETHROUGH_FRACTION == <<1, -54, <<9830, 6553, 9830, 1433>>>> \* 0.35

\* a font name is written <<base name, style modifier>>
\* what the PDF writer does with a call: insert_text fails for the font names of
\* unavailable, insert_image fails for the annotation kinds of image_fails, draw_line fails
\* when line_fails, Document.save when save_fails
NoFailure == [unavailable |-> {}, image_fails |-> {}, line_fails |-> FALSE, save_fails |-> FALSE]
WriterOutcomes ==
    {NoFailure,
     [NoFailure EXCEPT !.unavailable = {<<"Times", "-Bold">>}],
     [NoFailure EXCEPT !.unavailable = {<<"Times", "-Bold">>, <<"Times", "">>}],
     [NoFailure EXCEPT !.unavailable = {<<"Times", "-Bold">>, <<"Times", "">>,
                                        <<"Helvetica", "-Bold">>, <<"Helvetica", "">>}],
     [NoFailure EXCEPT !.image_fails = {"image"}],
     [NoFailure EXCEPT !.image_fails = {"doodle"}],
     [NoFailure EXCEPT !.line_fails = TRUE],
     [NoFailure EXCEPT !.save_fails = TRUE]}

WriterCall(op, id, a, page, coords, content, fontname) ==
    [op |-> op, annotation |-> id, kind |-> a.type, page |-> page, coords |-> coords,
     content |-> content, fontname |-> fontname]

font_map(fontname) ==
    CASE fontname = "Times New Roman" -> "Times"
      [] fontname = "Courier New" -> "Courier"
      [] fontname = "Arial" -> "Helvetica"
      [] OTHER -> fontname

\* a variant that tries the family alone before the styled name
font_attempts_family_first(a) ==
    << <<font_map(a.font_family), "">> >>
    \o (IF a.bold /\ a.italic THEN << <<font_map(a.font_family), "-BoldItalic">> >>
        ELSE IF a.bold THEN << <<font_map(a.font_family), "-Bold">> >>
        ELSE IF a.italic THEN << <<font_map(a.font_family), "-Italic">> >>
        ELSE <<>>)
    \o << <<"Helvetica", "">> >>
\* the font names insert_text is tried with, in order
font_attempts(a) ==
    (IF a.bold /\ a.italic THEN << <<font_map(a.font_family), "-BoldItalic">> >>
     ELSE IF a.bold THEN << <<font_map(a.font_family), "-Bold">> >>
     ELSE IF a.italic THEN << <<font_map(a.font_family), "-Italic">> >>
     ELSE <<>>)
    \o << <<font_map(a.font_family), "">>, <<"Helvetica", "">> >>

\* a variant that divides by the zoom of the viewport
pdf_scale_viewport(a) == FMul(BASE_SCALE, zoom_level)
\* the divisor of the conversion to PDF coordinates
pdf_scale(a) == FMul(BASE_SCALE, a.created_at_zoom)

\* the coordinates of a text annotation in the PDF: insertion point (x, y), the end of the
\* underline and strikethrough lines, and their heights
text_placement(a) ==
    Let2(LAMBDA scale, height_pdf :
           Let2(LAMBDA pdf_x, pdf_y :
                  [x |-> pdf_x, y |-> pdf_y,
                   line_end |-> FSub(FAdd(pdf_x, FDiv(a.width, BASE_SCALE)), FromInt(5)),
                   underline_y |-> FAdd(pdf_y, UNDERLINE_OFFSET),
                   strikethrough_y |->
                       FSub(pdf_y, FMul(FromInt(a.font_size), STRIKETHROUGH_FRACTION))],
                FAdd(FDiv(a.x, scale), FDiv(X_PADDING, BASE_SCALE)),
                FAdd(FAdd(FSub(FDiv(a.y, scale), height_pdf),
                          FDiv(FromInt(TEXT_ANNOTATION_Y_OFFSET), BASE_SCALE)),
                     FMul(height_pdf, BASELINE_FRACTION))),
         pdf_scale(a), FDiv(a.height, BASE_SCALE))

\* the rectangle (x0, y0, x1, y1) an image or doodle is inserted at
image_rect(a) ==
    Let1(LAMBDA scale :
           Let2(LAMBDA pdf_x, pdf_y :
                  <<pdf_x, pdf_y, FAdd(pdf_x, FDiv(a.width, scale)),
                    FAdd(pdf_y, FDiv(a.height, scale))>>,
                FDiv(a.x, scale), FDiv(a.y, scale)),
         pdf_scale(a))

text_calls(id, a, page, outcome) ==
    Let2(LAMBDA p, fonts :
           IF fonts = <<>> THEN <<>>
           ELSE <<WriterCall("insert_text", id, a, page, <<p.x, p.y>>, a.text, fonts[1])>>
                \o (IF a.underline /\ ~outcome.line_fails
                    THEN <<WriterCall("draw_line", id, a, page,
                                      <<p.x, p.underline_y, p.line_end, p.underline_y>>,
                                      "underline", <<>>)>>
                    ELSE <<>>)
                \o (IF a.strikethrough /\ ~outcome.line_fails
                    THEN <<WriterCall("draw_line", id, a, page,
                                      <<p.x, p.strikethrough_y, p.line_end, p.strikethrough_y>>,
                                      "strikethrough", <<>>)>>
                    ELSE <<>>),
         text_placement(a),
         SelectSeq(font_attempts(a), LAMBDA f : f \notin outcome.unavailable))

\* an exception that leaves save_pdf_with_annotations: doc[annotation.page_num] raises
\* IndexError for a page index outside the document
Exception(name) ==
    [op |-> name, annotation |-> None, kind |-> "none", page |-> None, coords |-> <<>>,
     content |-> "", fontname |-> <<>>]
Raised(calls) == calls # <<>> /\ calls[Len(calls)].annotation = None
Applied(calls) == IF Raised(calls) THEN SubSeq(calls, 1, Len(calls) - 1) ELSE calls

\* a variant without the try around insert_image: its failure leaves the function
image_calls_unguarded(id, a, page, outcome) ==
    IF a.type \in outcome.image_fails THEN <<Exception("RuntimeError")>>
    ELSE <<WriterCall("insert_image", id, a, page, image_rect(a),
                      IF a.type = "image" THEN a.image_path ELSE "doodle.png", <<>>)>>
\* the image and doodle branches: a failure of insert_image is caught and printed
image_calls(id, a, page, outcome) ==
    IF a.type \in outcome.image_fails THEN <<>>
    ELSE <<WriterCall("insert_image", id, a, page, image_rect(a),
                      IF a.type = "image" THEN a.image_path ELSE "doodle.png", <<>>)>>

RECURSIVE save_pdf_with_annotations(_, _, _, _, _)
save_pdf_with_annotations(d, objs, anns, k, outcome) ==
    IF k > Len(anns) THEN <<>>
    ELSE IF objs[anns[k]].page_num + 1 \notin DOMAIN d THEN <<Exception("IndexError")>>
    ELSE Let2(LAMBDA a, page :
                Let1(LAMBDA calls :
                       IF Raised(calls) THEN calls
                       ELSE calls \o save_pdf_with_annotations(d, objs, anns, k + 1, outcome),
                     IF a.type = "text" THEN text_calls(anns[k], a, page, outcome)
                     ELSE image_calls(anns[k], a, page, outcome)),
              objs[anns[k]], d[objs[anns[k]].page_num + 1])

\* the doodle annotations save_pdf_with_annotations has processed before it returned or raised
RECURSIVE doodles_processed(_, _, _, _)
doodles_processed(d, objs, anns, k) ==
    IF k > Len(anns) \/ objs[anns[k]].page_num + 1 \notin DOMAIN d THEN 0
    ELSE (IF objs[anns[k]].type = "doodle" THEN 1 ELSE 0)
         + doodles_processed(d, objs, anns, k + 1)
\* the temporary PNG files of the doodles that are left behind: os.unlink comes after
\* insert_image inside the try, so it is skipped when insert_image raises
doodle_files_left(d, objs, anns, outcome) ==
    IF "doodle" \in outcome.image_fails THEN doodles_processed(d, objs, anns, 1) ELSE 0

\* ---- PDFEditor.save_pdf, with a path chosen in the dialog: the path of the open document
\* (same_file) or another one; Document.save fails when outcome.save_fails ----
\* a variant that clears the drafts before it knows that the document was written
save_completes_unchecked(calls, outcome) == ~Raised(calls)
\* the drafts are cleared only when nothing raised before: the temporary file of a save to
\* the same path is moved over the document, or removed when Document.save failed
save_completes(calls, outcome) == ~Raised(calls) /\ ~outcome.save_fails

save_pdf(outcome, same_file) ==
    /\ Step
    /\ UNCHANGED manager
    /\ doc # <<>>
    /\ \E calls \in {save_pdf_with_annotations(doc, objects, draft_annotations, 1,
                                               outcome)} :
         /\ written' = written \o Applied(calls)
         /\ temp_files' = temp_files
                            + doodle_files_left(doc, objects, draft_annotations, outcome)
         /\ IF save_completes(calls, outcome)
            THEN /\ windows' = Detach(windows, TRUE)
                 /\ draft_annotations' = no_annotations
                 /\ label_annotations' =
                      SelectSeq(no_annotations,
                                LAMBDA id : objects[id].page_num = current_page)
                 /\ label_zoom_level' = zoom_level
            ELSE UNCHANGED <<draft_annotations, label_annotations, label_zoom_level, windows>>
         /\ event' = [type |-> "save", x |-> 0, y |-> 0,
                      before |-> [draft_annotations |-> draft_annotations,
                                  label_annotations |-> label_annotations,
                                  outcome |-> outcome, same_file |-> same_file,
                                  calls |-> calls,
                                  completed |-> save_completes(calls, outcome)]]
    /\ twin' = [twin EXCEPT !.written =
                    @ \o Applied(save_pdf_with_annotations(doc, twin.objects,
                                                           draft_annotations, 1, outcome))]
    /\ UNCHANGED <<doc, current_page, zoom_level, objects, dragging_annotation, drag_offset,
                   resizing_annotation, resize_edge, resize_start_pos, pressed>>

\* save_pdf with the file dialog dismissed: it returns before anything is applied
save_pdf_cancelled ==
    /\ Tick
    /\ doc # <<>>
    /\ event' = [type |-> "save cancelled", x |-> 0, y |-> 0, before |-> <<>>]
    /\ UNCHANGED <<doc, current_page, draft_annotations, zoom_level, objects,
                   label_annotations, label_zoom_level, dragging_annotation, drag_offset,
                   resizing_annotation, resize_edge, resize_start_pos, pressed, written, twin,
                   windows>>

\* the second run's on_zoom_changed
twin_on_zoom_changed(value) ==
    /\ Tick
    /\ \E z \in {slider_zoom(value)} :
         twin' = [twin EXCEPT !.zoom_level = z,
                              !.objects = IF doc # <<>>
                                          THEN paintEvent(@, annotations_of_page(current_page), z)
                                          ELSE @]
    /\ event' = [type |-> "twin zoom", x |-> 0, y |-> 0, before |-> <<>>]
    /\ UNCHANGED <<doc, current_page, draft_annotations, zoom_level, objects,
                   label_annotations, label_zoom_level, dragging_annotation, drag_offset,
                   resizing_annotation, resize_edge, resize_start_pos, pressed, written>>
    /\ UNCHANGED windows

\* ---- placing annotations, zooming and saving; a second run zooms on its own ----
SavePoints == {<<11, 12>>, <<30, 30>>}
SaveOutcomes == {NoFailure, [NoFailure EXCEPT !.save_fails = TRUE]}
NextSave ==
    \/ open_pdf(1)
    \/ \E v \in ZoomValues : on_zoom_changed(v)
    \/ \E v \in ZoomValues : twin_on_zoom_changed(v)
    \/ \E p \in TextPoints, f \in TextFormats : add_draft_text(p[1], p[2], f)
    \/ \E p \in SavePoints, f \in ImageFiles : add_draft_image(p[1], p[2], f)
    \/ \E p \in DoodlePoints, d \in Drawings : add_draft_doodle(p[1], p[2], d)
    \/ \E outcome \in SaveOutcomes : save_pdf(outcome, FALSE)

SpecSave == Init /\ [][NextSave]_vars

\* ---- placing annotations and saving, with every failure of the writer and both kinds of
\* path ----
NextWriter ==
    \/ open_pdf(1)
    \/ \E p \in TextPoints,
          f \in TextFormats
                \cup {[text |-> "Note", font_family |-> "Times New Roman", font_size |-> 12,
                        bold |-> TRUE, italic |-> FALSE, underline |-> TRUE,
                        strikethrough |-> FALSE]} :
          add_draft_text(p[1], p[2], f)
    \/ \E p \in SavePoints, f \in ImageFiles : add_draft_image(p[1], p[2], f)
    \/ \E p \in DoodlePoints, d \in Drawings : add_draft_doodle(p[1], p[2], d)
    \/ \E outcome \in WriterOutcomes : save_pdf(outcome, FALSE)
    \/ \E outcome \in SaveOutcomes : save_pdf(outcome, TRUE)

SpecWriter == Init /\ [][NextWriter]_vars

\* ---- page navigation and merge ----
PageTick ==
    /\ page_events < MaxPageEvents
    /\ page_events' = page_events + 1
    /\ UNCHANGED <<handled, temp_files, manager>>

\* show_page: the label gets the draft annotations of the page and the zoom of the editor
show_page(objs, drafts, page_num) ==
    \E anns \in {SelectSeq(drafts, LAMBDA id : objs[id].page_num = page_num)} :
        /\ label_annotations' = anns
        /\ label_zoom_level' = zoom_level
        /\ objects' = paintEvent(objs, anns, zoom_level)

prev_page ==
    /\ PageTick
    /\ doc # <<>>
    /\ current_page > 0
    /\ current_page' = current_page - 1
    /\ show_page(objects, draft_annotations, current_page - 1)
    /\ event' = [type |-> "prev_page", x |-> 0, y |-> 0, before |-> <<>>]
    /\ UNCHANGED <<doc, draft_annotations, zoom_level, dragging_annotation, drag_offset,
                   resizing_annotation, resize_edge, resize_start_pos, pressed, written, twin,
                   windows>>

next_page ==
    /\ PageTick
    /\ doc # <<>>
    /\ current_page < Len(doc) - 1
    /\ current_page' = current_page + 1
    /\ show_page(objects, draft_annotations, current_page + 1)
    /\ event' = [type |-> "next_page", x |-> 0, y |-> 0, before |-> <<>>]
    /\ UNCHANGED <<doc, draft_annotations, zoom_level, dragging_annotation, drag_offset,
                   resizing_annotation, resize_edge, resize_start_pos, pressed, written, twin,
                   windows>>

\* merge_pdf with a file of k pages chosen: the pages are appended to the document in place
\* (documents are explored up to MaxPages + MaxMergePages pages)
merge_pdf(k) ==
    /\ PageTick
    /\ doc # <<>>
    /\ Len(doc) + k <= MaxPages + MaxMergePages
    /\ doc' = doc \o FreshPages(windows, doc, k)
    /\ show_page(objects, draft_annotations, current_page)
    /\ event' = [type |-> "merge", x |-> 0, y |-> 0, before |-> <<>>]
    /\ UNCHANGED <<current_page, draft_annotations, zoom_level, dragging_annotation,
                   drag_offset, resizing_annotation, resize_edge, resize_start_pos, pressed,
                   written, twin, windows>>

\* ---- AllPagesWindow ----
\* a window: its document object (see original_doc), its preview copy doc, its page_mapping
\* and the operations done in it so far
show_all_pages ==
    /\ PageTick
    /\ doc # <<>>
    /\ Len(windows) < MaxWindows
    /\ windows' = Append(windows, [attached |-> TRUE, original_pages |-> <<>>,
                                   closed |-> FALSE, doc |-> doc,
                                   page_mapping |-> [i \in 1..Len(doc) |-> i - 1] \o <<>>,
                                   ops |-> <<>>])
    /\ event' = [type |-> "show_all_pages", x |-> 0, y |-> 0, before |-> <<>>]
    /\ UNCHANGED <<doc, current_page, draft_annotations, zoom_level, objects,
                   label_annotations, label_zoom_level, dragging_annotation, drag_offset,
                   resizing_annotation, resize_edge, resize_start_pos, pressed, written, twin>>

\* list.pop(i) and list.insert(i, v), 0-based
pop(s, i) == SubSeq(s, 1, i) \o SubSeq(s, i + 2, Len(s))
insert(s, i, v) == SubSeq(s, 1, i) \o <<v>> \o SubSeq(s, i + 1, Len(s))
index(s, v) == (CHOOSE i \in 1..Len(s) : s[i] = v /\ \A j \in 1..(i - 1) : s[j] # v) - 1

\* fitz Document.move_page(pno, to): the page is put in front of the page that has number to
move_page(d, pno, to) == insert(pop(d, pno), IF pno < to THEN to - 1 ELSE to, d[pno + 1])

reorder_pages(w, source_page, target_page) ==
    /\ PageTick
    /\ w <= Len(windows)
    /\ source_page < Len(windows[w].doc)
    /\ target_page < Len(windows[w].doc)
    /\ source_page # target_page
    /\ windows' = [windows EXCEPT
                     ![w].doc = move_page(@, source_page, target_page),
                     ![w].page_mapping = insert(pop(@, source_page), target_page,
                                                @[source_page + 1]),
                     ![w].ops = Append(@, <<"reorder", source_page, target_page>>)]
    /\ event' = [type |-> "reorder", x |-> 0, y |-> 0, before |-> <<>>]
    /\ UNCHANGED <<doc, current_page, draft_annotations, zoom_level, objects,
                   label_annotations, label_zoom_level, dragging_annotation, drag_offset,
                   resizing_annotation, resize_edge, resize_start_pos, pressed, written, twin>>

\* delete_page with the question answered Yes
delete_page(w, page_num) ==
    /\ PageTick
    /\ w <= Len(windows)
    /\ page_num < Len(windows[w].doc)
    /\ Len(windows[w].doc) > 1
    /\ windows' = [windows EXCEPT
                     ![w].doc = pop(@, page_num),
                     ![w].page_mapping = pop(@, page_num),
                     ![w].ops = Append(@, <<"delete", page_num>>)]
    /\ event' = [type |-> "delete", x |-> 0, y |-> 0, before |-> <<>>]
    /\ UNCHANGED <<doc, current_page, draft_annotations, zoom_level, objects,
                   label_annotations, label_zoom_level, dragging_annotation, drag_offset,
                   resizing_annotation, resize_edge, resize_start_pos, pressed, written, twin>>

\* a variant of Cancel that applies the page_mapping of the window as Confirm does
cancel_result_applied(w) ==
    [doc |-> [i \in 1..Len(windows[w].page_mapping) |->
                 original_doc(windows[w])[windows[w].page_mapping[i] + 1]] \o <<>>,
     draft_annotations |->
         SelectSeq(draft_annotations,
                   LAMBDA id : objects[id].page_num \in SeqRange(windows[w].page_mapping)),
     current_page |-> 0]
\* what on_cancel and closeEvent leave of the editor: they close the preview copy, remove
\* its temporary file and touch nothing of the editor
cancel_result(w) ==
    [doc |-> doc, draft_annotations |-> draft_annotations, current_page |-> current_page]

\* the window is closed without Confirm: by its Cancel button (on_cancel, which closes the
\* window) or by the window manager (closeEvent)
CloseWindow(w, type) ==
    /\ PageTick
    /\ w <= Len(windows)
    /\ \E res \in {cancel_result(w)} :
         /\ doc' = res.doc
         /\ draft_annotations' = res.draft_annotations
         /\ current_page' = res.current_page
    /\ windows' = pop(windows, w - 1)
    /\ event' = [type |-> type, x |-> 0, y |-> 0,
                 before |-> [doc |-> doc, draft_annotations |-> draft_annotations,
                             current_page |-> current_page, ops |-> windows[w].ops]]
    /\ UNCHANGED <<zoom_level, objects, label_annotations, label_zoom_level,
                   dragging_annotation, drag_offset, resizing_annotation, resize_edge,
                   resize_start_pos, pressed, written, twin>>
on_cancel(w) == CloseWindow(w, "cancel")
closeEvent(w) == CloseWindow(w, "close")

\* a variant that keeps every draft annotation
new_annotations_all(mapping, objs, drafts) == drafts
\* the draft annotations on_confirm keeps: those on a page of page_mapping
new_annotations(mapping, objs, drafts) ==
    SelectSeq(drafts, LAMBDA id : objs[id].page_num \in SeqRange(mapping))
\* and their page numbers
remapped(mapping, objs, drafts) ==
    [id \in 1..Len(objs) |->
        IF id \in SeqRange(drafts) /\ objs[id].page_num \in SeqRange(mapping)
        THEN [objs[id] EXCEPT !.page_num = index(mapping, objs[id].page_num)]
        ELSE objs[id]] \o <<>>

\* insert_pdf raises for a source document that has been closed: nothing is changed then
on_confirm(w) ==
    /\ PageTick
    /\ w <= Len(windows)
    /\ ~windows[w].closed
    /\ \E res \in {[new_doc |-> [i \in 1..Len(windows[w].page_mapping) |->
                                    original_doc(windows[w])[windows[w].page_mapping[i] + 1]]
                                \o <<>>,
                    drafts |-> new_annotations(windows[w].page_mapping, objects,
                                               draft_annotations),
                    objs |-> remapped(windows[w].page_mapping, objects, draft_annotations)]} :
         /\ doc' = res.new_doc
         /\ draft_annotations' = res.drafts
         /\ current_page' = 0
         /\ show_page(res.objs, res.drafts, 0)
    /\ windows' = pop(Detach(windows, TRUE), w - 1)
    /\ event' = [type |-> "confirm", x |-> 0, y |-> 0,
                 before |-> [doc |-> doc, draft_annotations |-> draft_annotations,
                             page_num |-> [id \in 1..Len(objects) |-> objects[id].page_num]
                                          \o <<>>,
                             attached |-> windows[w].attached,
                             page_mapping |-> windows[w].page_mapping,
                             ops |-> windows[w].ops]]
    /\ UNCHANGED <<zoom_level, dragging_annotation, drag_offset, resizing_annotation,
                   resize_edge, resize_start_pos, pressed, written, twin>>

\* ---- pages: opening, placing images, navigating, merging and the All Pages window ----
PageNumbers == 0..(MaxPages + MaxMergePages - 1)
NextPages ==
    \/ \E n \in 1..MaxPages : open_pdf(n)
    \/ \E p \in TextPoints, f \in ImageFiles : add_draft_image(p[1], p[2], f)
    \/ prev_page
    \/ next_page
    \/ \E k \in 1..MaxMergePages : merge_pdf(k)
    \/ show_all_pages
    \/ \E w \in 1..MaxWindows, s, t \in PageNumbers : reorder_pages(w, s, t)
    \/ \E w \in 1..MaxWindows, k \in PageNumbers : delete_page(w, k)
    \/ \E w \in 1..MaxWindows : on_confirm(w)
    \/ \E w \in 1..MaxWindows : on_cancel(w)
    \/ \E w \in 1..MaxWindows : closeEvent(w)

SpecPages == Init /\ [][NextPages]_vars
\* ---- dialogs that are dismissed, and the text edit dialog ----
\* a variant of the hit tests that measures text at the default zoom
measured_at_default_zoom(objs, anns, zoom) == paintEvent(objs, anns, DEFAULT_ZOOM)
\* what the hit tests of a click leave of the annotations: contains_point calls get_rect on
\* the annotations of the label, which re-measures a text annotation at the zoom of the test
measured(objs, anns, zoom) == paintEvent(objs, anns, zoom)

\* PDFEditor.mousePressEvent in a mode ("text", "image", "doodle"), when the press is on no
\* annotation of the label and the dialog (the file picker in image mode) is dismissed
mode_click_dismissed(mode, x, y) ==
    /\ Tick
    /\ doc # <<>>
    /\ ~is_clicking_annotation(x, y)
    /\ objects' = measured(objects, label_annotations, zoom_level)
    /\ event' = [type |-> "dismiss", x |-> x, y |-> y,
                 before |-> [mode |-> mode, draft_annotations |-> draft_annotations,
                             objects |-> objects]]
    /\ pressed' = NoPress
    /\ UNCHANGED <<doc, current_page, draft_annotations, zoom_level, label_annotations,
                   label_zoom_level, dragging_annotation, drag_offset, resizing_annotation,
                   resize_edge, resize_start_pos, written, twin, windows>>

is_valid(text_format) == text_format.text # ""

\* a variant that builds the annotation anew, at the default zoom of the constructor
edited_as_new(a, text_format) ==
    update_bounds([a EXCEPT !.text = text_format.text,
                            !.font_family = text_format.font_family,
                            !.font_size = text_format.font_size,
                            !.bold = text_format.bold,
                            !.italic = text_format.italic,
                            !.underline = text_format.underline,
                            !.strikethrough = text_format.strikethrough,
                            !.created_at_zoom = DEFAULT_ZOOM], DEFAULT_ZOOM)
\* the annotation after an accepted edit: its text and format are replaced and its bounds
\* measured by update_bounds() at the default zoom
edited(a, text_format) ==
    update_bounds([a EXCEPT !.text = text_format.text,
                            !.font_family = text_format.font_family,
                            !.font_size = text_format.font_size,
                            !.bold = text_format.bold,
                            !.italic = text_format.italic,
                            !.underline = text_format.underline,
                            !.strikethrough = text_format.strikethrough], DEFAULT_ZOOM)

\* mouseDoubleClickEvent on a text annotation of the label: the edit dialog is shown for the
\* first one that contains the point; accepted with a valid format it replaces the text and
\* the format and the label is painted again; dismissed it changes nothing
mouseDoubleClickEvent(x, y, accepted, text_format) ==
    /\ Tick
    /\ doc # <<>>
    /\ {k \in HitPositions(x, y) : objects[label_annotations[k]].type = "text"} # {}
    /\ \E id \in {label_annotations[
                      SetMin({k \in HitPositions(x, y) :
                                 objects[label_annotations[k]].type = "text"})]} :
         /\ objects' =
              IF accepted /\ is_valid(text_format)
              THEN paintEvent([measured(objects, label_annotations, label_zoom_level)
                                 EXCEPT ![id] = edited(@, text_format)],
                              label_annotations, label_zoom_level)
              ELSE measured(objects, label_annotations, label_zoom_level)
         /\ event' = [type |-> IF accepted THEN "edit" ELSE "dismiss", x |-> x, y |-> y,
                      before |-> [mode |-> "edit", draft_annotations |-> draft_annotations,
                                  objects |-> objects, annotation |-> id]]
    /\ UNCHANGED <<doc, current_page, draft_annotations, zoom_level, label_annotations,
                   label_zoom_level, dragging_annotation, drag_offset, resizing_annotation,
                   resize_edge, resize_start_pos, pressed, written, twin, windows>>

\* contextMenuEvent on an annotation of the label with Delete chosen and the question
\* answered Yes: the first annotation that contains the point is removed from the label's
\* list. self.parent() is the viewport of the scroll area (QScrollArea.setWidget made it the
\* label's parent), which has no draft_annotations, so the editor's list is left as it is
delete_annotation(x, y) ==
    /\ Tick
    /\ doc # <<>>
    /\ HitPositions(x, y) # {}
    /\ \E k \in {SetMin(HitPositions(x, y))} :
         /\ label_annotations' = pop(label_annotations, k - 1)
         /\ event' = [type |-> "delete annotation", x |-> x, y |-> y,
                      before |-> [annotation |-> label_annotations[k],
                                  draft_annotations |-> draft_annotations,
                                  label_annotations |-> label_annotations]]
    /\ objects' = measured(objects, label_annotations, label_zoom_level)
    /\ UNCHANGED <<doc, current_page, draft_annotations, zoom_level, label_zoom_level,
                   dragging_annotation, drag_offset, resizing_annotation, resize_edge,
                   resize_start_pos, pressed, written, twin, windows>>
\* ---- AnnotationManager ----
\* the positions in the manager's list of the annotations of a page, in list order
get_annotations_for_page(anns, page_num) ==
    SelectSeq([i \in 1..Len(anns) |-> i] \o <<>>, LAMBDA i : anns[i].page_num = page_num)

\* the loop over the annotations of the page from position k of the list
RECURSIVE first_containing(_, _, _, _, _, _, _)
first_containing(anns, page_annotations, k, step, x, y, zoom) ==
    IF k < 1 \/ k > Len(page_annotations) THEN None
    ELSE IF contains_point(anns[page_annotations[k]], x, y, zoom)
    THEN page_annotations[k]
    ELSE first_containing(anns, page_annotations, k + step, step, x, y, zoom)

\* a variant that goes through the list from its first annotation on
find_annotation_at_point_forward(anns, x, y, page_num, zoom) ==
    first_containing(anns, get_annotations_for_page(anns, page_num), 1, 1, x, y, zoom)
\* find_annotation_at_point: the list of the page is gone through in reverse; the result is
\* the position in the manager's list of the annotation returned, or None
find_annotation_at_point(anns, x, y, page_num, zoom) ==
    first_containing(anns, get_annotations_for_page(anns, page_num),
                     Len(get_annotations_for_page(anns, page_num)), -1, x, y, zoom)

\* the annotations after the search: contains_point has measured the text annotations of
\* the page that the loop got to, at the zoom of the search
searched(anns, x, y, page_num, zoom) ==
    Let1(LAMBDA found :
           [i \in 1..Len(anns) |->
               IF anns[i].page_num = page_num /\ (found = None \/ i >= found)
               THEN update_bounds(anns[i], zoom) ELSE anns[i]] \o <<>>,
         find_annotation_at_point(anns, x, y, page_num, zoom))

\* the editor does not use the manager: a call of the manager leaves the editor as it is
ManagerStep ==
    /\ Step
    /\ UNCHANGED <<temp_files, doc, current_page, draft_annotations, zoom_level, objects,
                   label_annotations, label_zoom_level, dragging_annotation, drag_offset,
                   resizing_annotation, resize_edge, resize_start_pos, pressed, written, twin,
                   windows>>

add_annotation(annotation) ==
    /\ ManagerStep
    /\ Len(manager) < MaxManaged
    /\ manager' = Append(manager, annotation)
    /\ event' = [type |-> "add_annotation", x |-> 0, y |-> 0, before |-> <<>>]

manager_find_annotation_at_point(x, y, page_num, zoom) ==
    /\ ManagerStep
    /\ manager' = searched(manager, x, y, page_num, zoom)
    /\ event' = [type |-> "find", x |-> x, y |-> y,
                 before |-> [annotations |-> manager, page_num |-> page_num,
                             zoom_level |-> zoom,
                             result |-> find_annotation_at_point(manager, x, y, page_num,
                                                                 zoom)]]

\* ---- the manager: annotations are added and looked up ----
NextManager ==
    \/ \E p \in SavePoints, page_num \in 0..1 :
          add_annotation(ImageAnnotation(p[1], p[2], page_num, "stamp.png"))
    \/ \E p \in TextPoints, f \in TextFormats : add_annotation(TextAnnotation(p[1], p[2], 0, f))
    \/ \E p \in AddPoints, page_num \in 0..1, v \in ZoomValues :
          manager_find_annotation_at_point(p[1], p[2], page_num,
                                           FDiv(FromInt(v), FromInt(100)))

SpecManager == Init /\ [][NextManager]_vars

\* ---- doodles: DoodleAnnotation is constructed without a size and handed to the manager ----
\* the drawings handed to the constructor: no stroke, one stroke of one point, one stroke
\* within the floor, one stroke beyond the floor, and two strokes of which the second is
\* the wider one
DoodleDrawings ==
    {<<>>,
     << <<<<5, 5>>>> >>,
     << <<<<0, 0>>, <<50, 80>>>> >>,
     << <<<<0, 0>>, <<90, 85>>>> >>,
     << <<<<10, 10>>, <<20, 20>>>>, <<<<0, 40>>, <<120, 30>>>> >>}

NextDoodle ==
    \/ \E p \in AddPoints, d \in DoodleDrawings :
          add_annotation(DoodleAnnotation(p[1], p[2], 0, d))
    \/ \E p \in DoodlePoints : manager_find_annotation_at_point(p[1], p[2], 0, FOne)

SpecDoodle == Init /\ [][NextDoodle]_vars

\* ---- text annotations from their constructors ----
\* TextFormat.__post_init__ raises ValueError: font size outside the range, a colour that
\* is not a triple, a component outside 0-255
post_init_raises(font_size, color) ==
    \/ ~(MIN_FONT_SIZE <= font_size /\ font_size <= MAX_FONT_SIZE)
    \/ Len(color) # 3
    \/ \E i \in 1..3 : ~(0 <= color[i] /\ color[i] <= 255)
\* TextFormat(text=..., font_size=..., color=...) when __post_init__ returns: the text is
\* stripped, the other fields are at the values of the dialog
TextFormat(text, font_size, color) ==
    [text |-> IF text = " Hi " THEN "Hi" ELSE text, font_family |-> "Arial",
     font_size |-> font_size,
     bold |-> FALSE, italic |-> FALSE, underline |-> FALSE, strikethrough |-> FALSE,
     color |-> color]

\* TextAnnotation(x, y, text, page_num, font_size=..., color=...): the constructor stores
\* what it is given
TextAnnotation_init(x, y, text, page_num, font_size, color) ==
    TextAnnotation(x, y, page_num,
                   [text |-> text, font_family |-> "Arial", font_size |-> font_size,
                    bold |-> FALSE, italic |-> FALSE, underline |-> FALSE,
                    strikethrough |-> FALSE])
    @@ [color |-> color]

\* PDFEditor._handle_text_mode_click with the dialog accepted: get_values builds the
\* TextFormat; its ValueError leaves the handler before add_draft_text
handle_text_mode_click(x, y, text, font_size, color) ==
    /\ doc # <<>>
    /\ ~is_clicking_annotation(x, y)
    /\ IF post_init_raises(font_size, color)
       THEN /\ Tick
            /\ pressed' = NoPress
            /\ event' = [type |-> "text_click", x |-> x, y |-> y,
                         before |-> [font_size |-> font_size, color |-> color,
                                     raised |-> TRUE]]
            /\ UNCHANGED <<doc, current_page, draft_annotations, zoom_level, objects,
                           label_annotations, label_zoom_level, dragging_annotation,
                           drag_offset, resizing_annotation, resize_edge, resize_start_pos,
                           written, twin, windows>>
       ELSE \* add_draft_text: TextAnnotation.from_text_format
            \E text_format \in {TextFormat(text, font_size, color)} :
               add_draft(x, y, TextAnnotation_init(x, y, text_format.text, current_page,
                                                   text_format.font_size, text_format.color))

\* TextAnnotation(...) handed to AnnotationManager.add_annotation
add_text_annotation(x, y, text, page_num, font_size, color) ==
    /\ ManagerStep
    /\ Len(manager) < MaxManaged
    /\ manager' = Append(manager, TextAnnotation_init(x, y, text, page_num, font_size, color))
    /\ event' = [type |-> "TextAnnotation", x |-> x, y |-> y,
                 before |-> [font_size |-> font_size, color |-> color, raised |-> FALSE]]

NextText ==
    \/ open_pdf(MaxPages)
    \/ \E p \in SavePoints, text \in {"Hi", " Hi "}, font_size \in {5, 12, 73},
          color \in {<<0, 0, 0>>, <<256, 0, 0>>, <<0, 0, -1>>} :
          handle_text_mode_click(p[1], p[2], text, font_size, color)
    \/ \E p \in TextPoints, font_size \in {12, 73}, color \in {<<0, 0, 0>>, <<256, 0, 0>>} :
          add_text_annotation(p[1], p[2], "Hi", 0, font_size, color)

SpecText == Init /\ [][NextText]_vars

\* ---- the zoom slider over its whole range, with annotations placed and struck ----
NextZoom ==
    \/ open_pdf(1)
    \/ \E value \in {ZOOM_SLIDER_MIN, ZOOM_SLIDER_DEFAULT, ZOOM_SLIDER_MAX} :
          on_zoom_changed(value)
    \/ \E p \in TextPoints, f \in TextFormats : add_draft_text(p[1], p[2], f)
    \/ \E p \in SavePoints, f \in ImageFiles : add_draft_image(p[1], p[2], f)
    \/ \E p \in SavePoints : mousePressEvent(p[1], p[2])
    \/ \E p \in SavePoints : mouseMoveEvent(p[1], p[2])
    \/ mouseReleaseEvent

SpecZoom == Init /\ [][NextZoom]_vars

\* ---- page indices: documents are opened, annotated, navigated, merged, rearranged in the
\* All Pages window and saved ----
IndexStep == handled + page_events < MaxIndexSteps
NextIndex ==
    \/ IndexStep /\ open_pdf(MaxPages)
    \/ \E p \in TextPoints, f \in ImageFiles : IndexStep /\ add_draft_image(p[1], p[2], f)
    \/ IndexStep /\ prev_page
    \/ IndexStep /\ next_page
    \/ IndexStep /\ merge_pdf(1)
    \/ IndexStep /\ show_all_pages
    \/ \E w \in 1..MaxWindows, s, t \in PageNumbers : IndexStep /\ reorder_pages(w, s, t)
    \/ \E w \in 1..MaxWindows, k \in PageNumbers : IndexStep /\ delete_page(w, k)
    \/ \E w \in 1..MaxWindows : IndexStep /\ on_confirm(w)
    \/ \E outcome \in SaveOutcomes : IndexStep /\ save_pdf(outcome, FALSE)

SpecIndex == Init /\ [][NextIndex]_vars
\* ---- the whole editor: every operation, on a document of MaxPages pages; the exploration
\* stops after MaxEditorSteps events and page events together ----
EditorStep == handled + page_events < MaxEditorSteps
NextEditor ==
    \/ EditorStep /\ open_pdf(MaxPages)
    \/ \E v \in ZoomValues : EditorStep /\ on_zoom_changed(v)
    \/ \E p \in TextPoints, f \in TextFormats : EditorStep /\ add_draft_text(p[1], p[2], f)
    \/ \E p \in TextPoints, f \in ImageFiles : EditorStep /\ add_draft_image(p[1], p[2], f)
    \/ \E p \in DoodlePoints, d \in Drawings : EditorStep /\ add_draft_doodle(p[1], p[2], d)
    \/ \E mode \in {"text", "image", "doodle"}, p \in DoodlePoints :
          EditorStep /\ mode_click_dismissed(mode, p[1], p[2])
    \/ \E p \in SavePoints : EditorStep /\ mousePressEvent(p[1], p[2])
    \/ \E p \in SavePoints : EditorStep /\ mouseMoveEvent(p[1], p[2])
    \/ EditorStep /\ mouseReleaseEvent
    \/ \E p \in TextPoints, accepted \in BOOLEAN, text \in {"Note", ""} :
          EditorStep /\ mouseDoubleClickEvent(p[1], p[2], accepted,
                                               [text |-> text, font_family |-> "Arial",
                                                font_size |-> 12, bold |-> FALSE,
                                                italic |-> FALSE, underline |-> FALSE,
                                                strikethrough |-> FALSE])
    \/ \E p \in SavePoints : EditorStep /\ delete_annotation(p[1], p[2])
    \/ EditorStep /\ prev_page
    \/ EditorStep /\ next_page
    \/ \E k \in 1..MaxMergePages : EditorStep /\ merge_pdf(k)
    \/ EditorStep /\ show_all_pages
    \/ \E w \in 1..MaxWindows, s, t \in PageNumbers : EditorStep /\ reorder_pages(w, s, t)
    \/ \E w \in 1..MaxWindows, k \in PageNumbers : EditorStep /\ delete_page(w, k)
    \/ \E w \in 1..MaxWindows : EditorStep /\ on_confirm(w)
    \/ \E w \in 1..MaxWindows : EditorStep /\ on_cancel(w)
    \/ \E w \in 1..MaxWindows : EditorStep /\ closeEvent(w)
    \/ \E outcome \in SaveOutcomes, same_file \in BOOLEAN :
          EditorStep /\ save_pdf(outcome, same_file)
    \/ EditorStep /\ save_pdf_cancelled

SpecEditor == Init /\ [][NextEditor]_vars

\* ---- claims about the pointer handlers ----
DisplayPosition(a, zoom) ==
    Let1(LAMBDA pos : <<FTrunc(pos[1]), FTrunc(pos[2])>>, get_scaled_position(a, zoom))

\* C1: a press on a point inside the display rectangles of two or more annotations of the
\* label selects the later-inserted one, the one painted on top
C1_LaterInsertedSelected ==
    (event.type = "press" /\ Cardinality(HitPositions(event.x, event.y)) >= 2)
        => pressed.annotation = label_annotations[SetMax(HitPositions(event.x, event.y))]
\* the press took the first-inserted annotation although a later one contains the point
C1_FirstInsertedSelected ==
    /\ event.type = "press"
    /\ Cardinality(HitPositions(event.x, event.y)) >= 2
    /\ pressed.annotation = label_annotations[SetMin(HitPositions(event.x, event.y))]
    /\ pressed.annotation # label_annotations[SetMax(HitPositions(event.x, event.y))]

\* C2: dragging_annotation and resizing_annotation are never both set
C2_AtMostOneOfDraggingResizing ==
    ~(dragging_annotation # None /\ resizing_annotation # None)
\* a second press before any release has left both set
C2_DraggingAndResizing ==
    event.type = "press" /\ dragging_annotation # None /\ resizing_annotation # None

\* C3: a release received while Dragging or Resizing leaves the widget Idle:
\* dragging_annotation, resizing_annotation and resize_edge are all cleared
C3_ReleaseReturnsToIdle ==
    [][(event'.type = "release" /\ (dragging_annotation # None \/ resizing_annotation # None))
          => (dragging_annotation' = None /\ resizing_annotation' = None
              /\ resize_edge' = "none")]_vars
\* the release has been handled and the widget is still Dragging
C3_DraggingAfterRelease ==
    event.type = "release" /\ dragging_annotation # None

\* C8: at every move step of a resize the display position of the edge opposite to the
\* resized one is unchanged: Left keeps Right, Right keeps Left, Top keeps Bottom, Bottom
\* keeps Top
C8_OppositeEdgeFixed ==
    (event.type = "move" /\ resizing_annotation # None)
        => LET now == get_rect(objects[resizing_annotation], label_zoom_level)
           IN /\ resize_edge = "left" => right(now) = right(event.before)
              /\ resize_edge = "right" => left(now) = left(event.before)
              /\ resize_edge = "top" => bottom(now) = bottom(event.before)
              /\ resize_edge = "bottom" => top(now) = top(event.before)
\* a resize move from the Left (Top) edge has moved the Right (Bottom) edge on the display,
\* or one from the Right (Bottom) edge has moved the Left (Top) edge
C8_OppositeEdgeMoved ==
    /\ event.type = "move"
    /\ resizing_annotation # None
    /\ LET now == get_rect(objects[resizing_annotation], label_zoom_level)
       IN \/ resize_edge = "left" /\ right(now) # right(event.before)
          \/ resize_edge = "right" /\ left(now) # left(event.before)
          \/ resize_edge = "top" /\ bottom(now) # bottom(event.before)
          \/ resize_edge = "bottom" /\ top(now) # top(event.before)

\* C9: a resize move that would bring the width (height) to MIN_ANNOTATION_SIZE or below
\* leaves x, y, width, height and resize_start_pos unchanged, and a resize move keeps a width
\* and height that were above the minimum above it
C9_ClampedMoveNotApplied ==
    [][(event'.type = "move" /\ resizing_annotation # None)
          => LET a == objects[resizing_annotation]
                 b == objects'[resizing_annotation]
                 size == new_size(a, resize_edge, event'.x - resize_start_pos[1],
                                  event'.y - resize_start_pos[2],
                                  get_zoom_ratio(a, label_zoom_level))
                 min == FromInt(MIN_ANNOTATION_SIZE)
             IN /\ ~FLess(min, size)
                     => (b.x = a.x /\ b.y = a.y /\ b.width = a.width /\ b.height = a.height
                         /\ resize_start_pos' = resize_start_pos)
                /\ (FLess(min, a.width) /\ FLess(min, a.height))
                     => (FLess(min, b.width) /\ FLess(min, b.height))]_vars
\* a resize move has been handled and was not applied: the reference point stayed behind
C9_ClampedMoveHandled ==
    /\ event.type = "move"
    /\ resizing_annotation # None
    /\ resize_start_pos # <<event.x, event.y>>
    /\ LET a == objects[resizing_annotation]
       IN ~FLess(FromInt(MIN_ANNOTATION_SIZE),
                 new_size(a, resize_edge, event.x - resize_start_pos[1],
                          event.y - resize_start_pos[2], get_zoom_ratio(a, label_zoom_level)))

\* a drag move has brought the pointer back to the point of the press that started the drag,
\* at the zoom of that press
ZeroDisplacementDrag ==
    /\ event.type = "move"
    /\ resizing_annotation = None
    /\ dragging_annotation # None
    /\ pressed.annotation = dragging_annotation
    /\ pressed.mode = "drag"
    /\ pressed.zoom = label_zoom_level
    /\ event.x = pressed.x
    /\ event.y = pressed.y
\* the position a further press at the same point and a move to it would write back
Redrag(a, zoom) ==
    Let2(LAMBDA pos, zoom_ratio :
           drag(a, 0, 0, <<0 - pos[1], 0 - pos[2]>>, zoom_ratio),
         DisplayPosition(a, zoom), get_zoom_ratio(a, zoom))

\* C10: a drag with zero net displacement at an unchanged zoom leaves the display position
\* of the annotation unchanged, and pressing again at the same point reproduces the same
\* position
C10_DragWriteBackInverse ==
    ZeroDisplacementDrag
        => LET a == objects[dragging_annotation]
           IN /\ DisplayPosition(a, label_zoom_level) = pressed.pos
              /\ Redrag(a, label_zoom_level).x = a.x
              /\ Redrag(a, label_zoom_level).y = a.y
\* the annotation is displayed elsewhere than at the press although the pointer is back
\* at the press point
C10_DragDrift ==
    /\ ZeroDisplacementDrag
    /\ DisplayPosition(objects[dragging_annotation], label_zoom_level) # pressed.pos

\* ---- claims about saving ----
TextCalls(calls) == SelectSeq(calls, LAMBDA c : c.kind = "text")

\* C4: the coordinates written for a Text annotation (insertion point, underline and
\* strikethrough lines) are the same in two runs that differ only in their zoom changes
\* after the annotation was placed
C4_TextPlacementIndependentOfZoom ==
    event.type = "save" => TextCalls(written) = TextCalls(twin.written)
\* both runs have saved the same text annotation and wrote it at different coordinates
C4_TextPlacementDependsOnZoom ==
    /\ event.type = "save"
    /\ \E i \in 1..Len(written) :
         /\ written[i].op = "insert_text"
         /\ twin.written[i].op = "insert_text"
         /\ twin.written[i].annotation = written[i].annotation
         /\ twin.written[i].coords # written[i].coords

\* C5: an Image or Doodle annotation is inserted at the rectangle of origin (x, y) and size
\* (width, height), each divided by BASE_SCALE * created_at_zoom, whatever the zoom of the
\* viewport at the save; the rectangle is given by its corners (x0, y0, x0 + w, y0 + h)
C5_ImageRectDividedByCreatedZoom ==
    \A i \in 1..Len(written) :
        (event.type = "save" /\ written[i].op = "insert_image")
            => LET a == objects[written[i].annotation]
                   divisor == FMul(BASE_SCALE, a.created_at_zoom)
               IN written[i].coords =
                      <<FDiv(a.x, divisor), FDiv(a.y, divisor),
                        FAdd(FDiv(a.x, divisor), FDiv(a.width, divisor)),
                        FAdd(FDiv(a.y, divisor), FDiv(a.height, divisor))>>
\* an image and a doodle have been saved at a viewport zoom that is not their created_at_zoom
C5_SavedAtAnotherZoom ==
    /\ event.type = "save"
    /\ \A kind \in {"image", "doodle"} :
         \E i \in 1..Len(written) :
            /\ written[i].op = "insert_image"
            /\ written[i].kind = kind
            /\ objects[written[i].annotation].created_at_zoom # zoom_level

\* ---- claims about the All Pages window ----
\* the draft annotations the last Confirm found, and the page each of them was on
DraftsBefore == SeqRange(event.before.draft_annotations)
PageBefore(id) == event.before.page_num[id]
Drafts == SeqRange(draft_annotations)

\* Confirm has been applied in a window in which exactly page k was deleted
DeletedThenConfirmed(k) ==
    event.type = "confirm" /\ event.before.ops = <<<<"delete", k>>>>

\* C6: after page k is deleted in the All Pages window and Confirm is applied, the draft
\* annotations that were on page k are gone, those on a page after k are on the page one
\* below and those on a page before k are on the same page
C6_DeleteShiftsAnnotations ==
    \A k \in PageNumbers :
        DeletedThenConfirmed(k)
            => \A id \in DraftsBefore :
                  /\ PageBefore(id) = k => id \notin Drafts
                  /\ PageBefore(id) > k
                        => (id \in Drafts /\ objects[id].page_num = PageBefore(id) - 1)
                  /\ PageBefore(id) < k
                        => (id \in Drafts /\ objects[id].page_num = PageBefore(id))
\* page k was deleted and confirmed, and an annotation that was on a page after k is no
\* longer a draft
C6_AnnotationAfterDeletedPageLost ==
    \E k \in PageNumbers :
        /\ DeletedThenConfirmed(k)
        /\ \E id \in DraftsBefore : PageBefore(id) > k /\ id \notin Drafts

\* Confirm has been applied in a window in which pages were reordered and none was deleted
ReorderedThenConfirmed ==
    /\ event.type = "confirm"
    /\ event.before.ops # <<>>
    /\ \A i \in 1..Len(event.before.ops) : event.before.ops[i][1] = "reorder"

\* C7: after page reorders and Confirm no draft annotation is dropped, and each one is on the
\* position that the page it was placed on has in the confirmed document
C7_ReorderKeepsAnnotationsOnTheirPages ==
    ReorderedThenConfirmed
        => \A id \in DraftsBefore :
              /\ id \in Drafts
              /\ objects[id].page_num + 1 \in DOMAIN doc
              /\ doc[objects[id].page_num + 1] = event.before.doc[PageBefore(id) + 1]
\* pages were reordered and confirmed, and a draft annotation has been dropped
C7_AnnotationDroppedByReorder ==
    /\ ReorderedThenConfirmed
    /\ \E id \in DraftsBefore : id \notin Drafts

\* ---- claims about the frame of a drag ----
\* a move or release handled in the gesture that the last press started on the body of an
\* annotation, at the zoom of that press
DragStep ==
    /\ event'.type \in {"move", "release"}
    /\ pressed.mode = "drag"
    /\ dragging_annotation # None
    /\ pressed.zoom = label_zoom_level

\* C11: a drag (press on the body of an annotation, moves, release) at a fixed zoom changes
\* only x and y of the dragged annotation: its created_at_zoom, width, height and page_num
\* and every field of every other annotation are unchanged
C11_DragChangesOnlyPosition ==
    [][DragStep
         => \A id \in 1..Len(objects) :
               objects'[id] = IF id = dragging_annotation
                              THEN [objects[id] EXCEPT !.x = objects'[id].x,
                                                       !.y = objects'[id].y]
                              ELSE objects[id]]_vars
\* a move of a drag has changed the width or the height of an annotation
C11_SizeChangedInDrag ==
    /\ event.type = "move"
    /\ pressed.mode = "drag"
    /\ dragging_annotation # None
    /\ pressed.zoom = label_zoom_level
    /\ resizing_annotation # None
    /\ <<event.before[3], event.before[4]>>
          # <<get_rect(objects[resizing_annotation], label_zoom_level)[3],
              get_rect(objects[resizing_annotation], label_zoom_level)[4]>>

\* C12: an annotation's created_at_zoom is the zoom of the editor at the moment it is
\* placed, and no later step (zoom change, drag, resize, text edit, page navigation, merge,
\* reorder or delete with Confirm, cancelled or failed save, or any other) changes it
C12_CreatedZoomFixed ==
    [][/\ \A id \in 1..Len(objects) :
            /\ id \in 1..Len(objects')
            /\ objects'[id].created_at_zoom = objects[id].created_at_zoom
       /\ \A id \in (Len(objects) + 1)..Len(objects') :
            objects'[id].created_at_zoom = zoom_level]_vars
\* a text annotation placed at a zoom other than the default has been edited
C12_EditedAfterPlacedZoomed ==
    /\ event.type = "edit"
    /\ objects[event.before.annotation].text # event.before.objects[event.before.annotation].text
    /\ objects[event.before.annotation].created_at_zoom # DEFAULT_ZOOM
    /\ objects[event.before.annotation].created_at_zoom = zoom_level

\* C13: a step in which the text dialog, the doodle dialog, the image file picker or the
\* edit dialog of a text annotation is dismissed leaves the draft annotation list and
\* every field of every annotation unchanged
C13_DismissChangesNothing ==
    [][event'.type = "dismiss"
         => /\ draft_annotations' = draft_annotations
            /\ label_annotations' = label_annotations
            /\ objects' = objects]_vars
\* a dialog of a mode click has been dismissed with a text annotation on the page, at a zoom
\* other than the default
C13_DismissedWithDrafts ==
    /\ event.type = "dismiss"
    /\ event.before.mode \in {"text", "image", "doodle"}
    /\ zoom_level # DEFAULT_ZOOM
    /\ \E k \in 1..Len(label_annotations) : objects[label_annotations[k]].type = "text"
\* the edit dialog of a text annotation has been dismissed
C13_EditDismissed ==
    /\ event.type = "dismiss"
    /\ event.before.mode = "edit"

C14_SaveToSamePathFailed ==
    /\ event.type = "save"
    /\ event.before.outcome.save_fails
    /\ event.before.same_file
    /\ event.before.draft_annotations # <<>>

\* C15: right after a document has been opened, and right after a save has completed (the
\* document was written and nothing raised), the draft annotation list is empty and so is
\* the list of the view
C15_DraftsEmptyAfterOpenAndSave ==
    (\/ event.type = "open"
     \/ /\ event.type = "save"
        /\ ~event.before.outcome.save_fails
        /\ ~Raised(event.before.calls))
    => draft_annotations = <<>> /\ label_annotations = <<>>
\* a save with annotations in the draft list has completed
C15_SaveCompletedWithDrafts ==
    /\ event.type = "save"
    /\ ~event.before.outcome.save_fails
    /\ ~Raised(event.before.calls)
    /\ event.before.draft_annotations # <<>>
    /\ event.before.label_annotations # <<>>
\* a document has been opened over one that had draft annotations
C15_OpenedOverDrafts ==
    /\ event.type = "open"
    /\ objects # <<>>

\* the writer calls of one annotation, and the operations of a sequence of calls
CallsOf(calls, id) == SelectSeq(calls, LAMBDA c : c.annotation = id)
Ops(calls) == [i \in 1..Len(calls) |-> calls[i].op] \o <<>>
\* every insert_text attempt of the text annotation fails
AllFontsFail(a, outcome) == SeqRange(font_attempts(a)) \subseteq outcome.unavailable
\* a draw_line call of the text annotation fails
LineFails(a, outcome) == outcome.line_fails /\ (a.underline \/ a.strikethrough)
\* a writer call made for the annotation fails
WriterCallFails(a, outcome) ==
    IF a.type = "text" THEN AllFontsFail(a, outcome) \/ LineFails(a, outcome)
    ELSE a.type \in outcome.image_fails
\* the operations of an annotation that is applied in full
OpsInFull(a) ==
    IF a.type = "text"
    THEN <<"insert_text">> \o (IF a.underline THEN <<"draw_line">> ELSE <<>>)
                           \o (IF a.strikethrough THEN <<"draw_line">> ELSE <<>>)
    ELSE <<"insert_image">>

\* C16 as stated: a failing writer call (insert_text, draw_line, insert_image) never aborts
\* save_pdf_with_annotations; nothing of the failing annotation is in the document and
\* every other annotation of the list is applied in full
C16_FailingAnnotationSkipped ==
    event.type = "save"
    => /\ ~Raised(event.before.calls)
       /\ \A id \in SeqRange(event.before.draft_annotations) :
            Ops(CallsOf(event.before.calls, id)) =
                IF WriterCallFails(objects[id], event.before.outcome) THEN <<>>
                ELSE OpsInFull(objects[id])
\* C16 amended: a failing writer call never aborts save_pdf_with_annotations; an annotation
\* whose insert_text attempts all fail or whose insert_image fails is skipped, an
\* annotation whose draw_line fails keeps its text and lacks its lines, and every other
\* annotation of the list is applied in full
C16_FailureNeverAborts ==
    event.type = "save"
    => /\ ~Raised(event.before.calls)
       /\ \A id \in SeqRange(event.before.draft_annotations) :
            Ops(CallsOf(event.before.calls, id)) =
                IF objects[id].type = "text"
                THEN IF AllFontsFail(objects[id], event.before.outcome) THEN <<>>
                     ELSE IF LineFails(objects[id], event.before.outcome)
                     THEN <<"insert_text">>
                     ELSE OpsInFull(objects[id])
                ELSE IF objects[id].type \in event.before.outcome.image_fails THEN <<>>
                ELSE OpsInFull(objects[id])
\* a save in which a writer call failed for one annotation of the list and not for another
C16_OneFailedOneApplied ==
    /\ event.type = "save"
    /\ \E id, other \in SeqRange(event.before.draft_annotations) :
         /\ WriterCallFails(objects[id], event.before.outcome)
         /\ ~WriterCallFails(objects[other], event.before.outcome)
         /\ CallsOf(event.before.calls, id) = <<>>
         /\ CallsOf(event.before.calls, other) # <<>>
\* a save in which draw_line failed for a text annotation
C16_LineFailed ==
    /\ event.type = "save"
    /\ \E id \in SeqRange(event.before.draft_annotations) :
         /\ objects[id].type = "text"
         /\ LineFails(objects[id], event.before.outcome)
         /\ Ops(CallsOf(event.before.calls, id)) = <<"insert_text">>

\* the styled font name of a text annotation: the family with its Bold/Italic suffix
StyledName(a) ==
    <<font_map(a.font_family),
      IF a.bold /\ a.italic THEN "-BoldItalic" ELSE IF a.bold THEN "-Bold" ELSE "-Italic">>
\* the font the claim expects: the first that is available of the styled name (when the
\* annotation is bold or italic), the family alone and Helvetica; <<>> when none is
ExpectedFont(a, unavailable) ==
    IF (a.bold \/ a.italic) /\ StyledName(a) \notin unavailable THEN StyledName(a)
    ELSE IF <<font_map(a.font_family), "">> \notin unavailable
    THEN <<font_map(a.font_family), "">>
    ELSE IF <<"Helvetica", "">> \notin unavailable THEN <<"Helvetica", "">>
    ELSE <<>>
InsertTextCalls(calls, id) ==
    SelectSeq(calls, LAMBDA c : c.annotation = id /\ c.op = "insert_text")

\* C17: a text annotation is inserted once, with the first font that succeeds of the styled
\* name, the family alone and Helvetica, in that order; failed attempts raise nothing, and
\* the annotation is skipped only when all attempts fail
C17_FontFallbackOrder ==
    event.type = "save"
    => /\ ~Raised(event.before.calls)
       /\ \A id \in SeqRange(event.before.draft_annotations) :
            objects[id].type = "text"
            => IF ExpectedFont(objects[id], event.before.outcome.unavailable) = <<>>
               THEN CallsOf(event.before.calls, id) = <<>>
               ELSE /\ Len(InsertTextCalls(event.before.calls, id)) = 1
                    /\ InsertTextCalls(event.before.calls, id)[1].fontname =
                         ExpectedFont(objects[id], event.before.outcome.unavailable)
\* a save in which the styled name of a text annotation failed and the family alone was used
C17_FellBackToFamily ==
    /\ event.type = "save"
    /\ \E id \in SeqRange(event.before.draft_annotations) :
         /\ objects[id].type = "text"
         /\ StyledName(objects[id]) \in event.before.outcome.unavailable
         /\ InsertTextCalls(event.before.calls, id) # <<>>
         /\ InsertTextCalls(event.before.calls, id)[1].fontname =
              <<font_map(objects[id].font_family), "">>
\* a save in which the styled name and the family failed and Helvetica was used
C17_FellBackToHelvetica ==
    /\ event.type = "save"
    /\ \E id \in SeqRange(event.before.draft_annotations) :
         /\ objects[id].type = "text"
         /\ font_map(objects[id].font_family) # "Helvetica"
         /\ InsertTextCalls(event.before.calls, id) # <<>>
         /\ InsertTextCalls(event.before.calls, id)[1].fontname = <<"Helvetica", "">>
\* a save in which every attempt failed and the text annotation was skipped
C17_AllAttemptsFailed ==
    /\ event.type = "save"
    /\ \E id \in SeqRange(event.before.draft_annotations) :
         /\ objects[id].type = "text"
         /\ ExpectedFont(objects[id], event.before.outcome.unavailable) = <<>>
         /\ CallsOf(event.before.calls, id) = <<>>

\* C18: the temporary image file of a doodle is removed once the doodle has been processed,
\* also when insert_image fails: a save leaves no temporary file behind
C18_DoodleTempFileRemoved ==
    event.type = "save" => temp_files = 0
\* a save in which insert_image failed for a doodle has left its temporary file behind
C18_TempFileLeft ==
    /\ event.type = "save"
    /\ "doodle" \in event.before.outcome.image_fails
    /\ \E id \in SeqRange(event.before.draft_annotations) : objects[id].type = "doodle"
    /\ temp_files > 0

\* a step of the All Pages window that is not Confirm: a reorder, a deletion, Cancel or
\* the closing of the window
WindowStep == event'.type \in {"reorder", "delete", "cancel", "close"}
\* C19: reorders and deletions in the All Pages window, Cancel and the closing of the window
\* leave the editor's document (page order and page count), its current page, its draft
\* annotations and their page numbers as they are; after any sequence of them followed by
\* Cancel or the closing the editor is as it was when the window was opened
C19_CancelLeavesEditorUnchanged ==
    [][WindowStep
         => /\ doc' = doc
            /\ current_page' = current_page
            /\ draft_annotations' = draft_annotations
            /\ objects' = objects
            /\ label_annotations' = label_annotations]_vars
\* a window in which pages were reordered or deleted has been cancelled or closed
C19_CancelledAfterChanges ==
    /\ event.type \in {"cancel", "close"}
    /\ event.before.ops # <<>>
    /\ event.before.doc = doc
\* Cancel after a deletion, with a draft annotation in the editor
C19_CancelledWithDrafts ==
    /\ event.type = "cancel"
    /\ event.before.ops # <<>>
    /\ draft_annotations # <<>>

\* the positions of the annotations of the page that contain the point at the zoom
Containing(anns, x, y, page_num, zoom) ==
    {i \in 1..Len(anns) : anns[i].page_num = page_num /\ contains_point(anns[i], x, y, zoom)}
\* C20: find_annotation_at_point returns, of the annotations of the page whose rectangle at
\* the zoom contains the point, the one added last, and None when there is none (in
\* particular for an empty list)
C20_FindReturnsLastAdded ==
    event.type = "find"
    => event.before.result =
         IF Containing(event.before.annotations, event.x, event.y, event.before.page_num,
                       event.before.zoom_level) = {}
         THEN None
         ELSE SetMax(Containing(event.before.annotations, event.x, event.y,
                                event.before.page_num, event.before.zoom_level))
\* a search at a point that two annotations of the page contain
C20_FoundAmongOverlapping ==
    /\ event.type = "find"
    /\ Cardinality(Containing(event.before.annotations, event.x, event.y,
                              event.before.page_num, event.before.zoom_level)) >= 2
    /\ event.before.result = Len(event.before.annotations)
\* a search in an empty list
C20_NoneForEmptyList ==
    /\ event.type = "find"
    /\ event.before.annotations = <<>>
    /\ event.before.result = None

\* the edges of the rectangle that the point is within EDGE_RESIZE_THRESHOLD of
NearEdges(rect, x, y) ==
    {e \in {"left", "right", "top", "bottom"} :
        CASE e = "left" -> Abs(x - left(rect)) < EDGE_RESIZE_THRESHOLD
          [] e = "right" -> Abs(x - right(rect)) < EDGE_RESIZE_THRESHOLD
          [] e = "top" -> Abs(y - top(rect)) < EDGE_RESIZE_THRESHOLD
          [] e = "bottom" -> Abs(y - bottom(rect)) < EDGE_RESIZE_THRESHOLD}
\* the first of Left, Right, Top, Bottom in a non-empty set of edges
FirstEdge(edges) ==
    IF "left" \in edges THEN "left" ELSE IF "right" \in edges THEN "right"
    ELSE IF "top" \in edges THEN "top" ELSE "bottom"
Idle == dragging_annotation = None /\ resizing_annotation = None

C21_BottomEdgePressed ==
    /\ event.type = "press"
    /\ dragging_annotation = None
    /\ resizing_annotation # None
    /\ resize_edge = "bottom"

\* C22: a text annotation is never resized: from Idle, a press that strikes a text
\* annotation starts dragging it, wherever inside it the point is, and
\* resizing_annotation is never a text annotation
C22_TextNeverResized ==
    [][/\ resizing_annotation' # None => objects'[resizing_annotation'].type # "text"
       /\ (/\ Idle
           /\ event'.type = "press"
           /\ pressed'.annotation # None
           /\ objects[pressed'.annotation].type = "text")
          => /\ dragging_annotation' = pressed'.annotation
             /\ resizing_annotation' = None]_vars
\* a press from Idle has struck a text annotation within the threshold of one of its edges
C22_TextPressedNearEdge ==
    /\ event.type = "press"
    /\ pressed.annotation # None
    /\ objects[pressed.annotation].type = "text"
    /\ dragging_annotation = pressed.annotation
    /\ resizing_annotation = None
    /\ NearEdges(get_rect(objects[pressed.annotation], label_zoom_level),
                 event.x, event.y) # {}

\* ---- C23 ----
\* the points of all strokes of a drawing
AllPoints(drawing_data) ==
    {p \in UNION {{drawing_data[k][i] : i \in 1..Len(drawing_data[k])} :
                     k \in 1..Len(drawing_data)} : TRUE}
\* the sizes the claim allows along one axis: the floor and every padded distance of two
\* points
PaddedSpans(drawing_data, axis) ==
    {100} \cup {p[axis] - q[axis] + 2 * DOODLE_PADDING :
                   p \in AllPoints(drawing_data), q \in AllPoints(drawing_data)}
Largest(S, w) == w \in S /\ \A v \in S : v <= w
Doodles == {manager[i] : i \in {j \in 1..Len(manager) : manager[j].type = "doodle"}}

\* C23: a doodle constructed without a size has width max(100, maxX - minX + 2 *
\* DOODLE_PADDING) and height max(100, maxY - minY + 2 * DOODLE_PADDING) over all points
\* of all strokes; with no stroke or a single point it is 100 by 100.
C23_DoodleBounds ==
    \A a \in Doodles :
        /\ \E w \in PaddedSpans(a.drawing_data, 1) :
              Largest(PaddedSpans(a.drawing_data, 1), w) /\ a.width = FromInt(w)
        /\ \E h \in PaddedSpans(a.drawing_data, 2) :
              Largest(PaddedSpans(a.drawing_data, 2), h) /\ a.height = FromInt(h)
        /\ Cardinality(AllPoints(a.drawing_data)) <= 1
              => a.width = FromInt(100) /\ a.height = FromInt(100)

\* C23 witness: the manager holds a doodle of two strokes whose second stroke makes it 140
\* wide, and a doodle of a single point at the floor size
C23_WideAndSinglePoint ==
    /\ \E a \in Doodles :
          Len(a.drawing_data) = 2 /\ a.width = FromInt(140) /\ a.height = FromInt(100)
    /\ \E a \in Doodles :
          Cardinality(AllPoints(a.drawing_data)) = 1 /\ a.width = FromInt(100)

\* ---- C24 ----
ValidFontSize(font_size) == MIN_FONT_SIZE <= font_size /\ font_size <= MAX_FONT_SIZE
ValidColor(color) == \A i \in 1..Len(color) : 0 <= color[i] /\ color[i] <= 255
TextAnnotations ==
    {objects[id] : id \in {i \in 1..Len(objects) : objects[i].type = "text"}}
    \cup {manager[i] : i \in {j \in 1..Len(manager) : manager[j].type = "text"}}

\* C24: creating a text annotation with a colour component outside 0-255 or a font size
\* outside [MIN_FONT_SIZE, MAX_FONT_SIZE] fails with a validation error: no annotation is
\* produced or added to a list, and no annotation carries a clamped value.
C24_InvalidTextRejected ==
    [][event'.type \in {"text_click", "TextAnnotation"}
       /\ ~(ValidFontSize(event'.before.font_size) /\ ValidColor(event'.before.color))
       => /\ event'.before.raised
          /\ UNCHANGED <<draft_annotations, label_annotations, objects, manager>>]_vars

\* C24: through TextFormat, as the editor creates text annotations, an invalid colour or
\* font size raises ValueError and every text annotation of the editor carries a valid
\* font size and colour
C24_FormatPathRejects ==
    /\ \A id \in 1..Len(objects) :
          objects[id].type = "text"
             => ValidFontSize(objects[id].font_size) /\ ValidColor(objects[id].color)
    /\ event.type = "text_click" => event.before.raised

\* C24: a text annotation with a font size or colour outside the ranges exists
C24_InvalidTextAnnotation ==
    \E a \in TextAnnotations : ~(ValidFontSize(a.font_size) /\ ValidColor(a.color))
\* C24: a click in text mode has raised ValueError
C24_FormatRaised == event.type = "text_click" /\ event.before.raised

SameRearrangement(before, after) ==
    /\ Len(after.doc) = Len(after.page_mapping)
    /\ \A i \in 1..Len(after.doc) :
          \E j \in 1..Len(before.doc) :
             after.doc[i] = before.doc[j] /\ after.page_mapping[i] = before.page_mapping[j]

\* C26: in an All Pages window the order of the preview document equals the order recorded
\* in page_mapping after every reorder and delete: both start as the pages of the document
\* in order, and every reorder and every delete rearranges the two in the same way.
C26_PreviewOrderIsPageMapping ==
    [][event'.type \in {"reorder", "delete"}
       => \A w \in 1..Len(windows) :
             w <= Len(windows') => SameRearrangement(windows[w], windows'[w])]_vars

\* C26: a window opened on a document of two pages in which the first page was dropped on
\* the second: the preview still shows the pages in their order, page_mapping has them
\* exchanged
C26_PreviewDiffersFromMapping ==
    \E w \in 1..Len(windows) :
        /\ windows[w].attached
        /\ windows[w].ops = <<<<"reorder", 0, 1>>>>
        /\ windows[w].doc = doc
        /\ windows[w].page_mapping = <<1, 0>>

\* ---- C27 ----
\* the calls that put an annotation into the in-memory document
Bakes(id) ==
    {k \in 1..Len(written) :
        written[k].annotation = id /\ written[k].op \in {"insert_text", "insert_image"}}

\* C27: across any sequence of Save attempts on one document (cancelled, failed or
\* successful) every draft annotation is applied to the in-memory document at most once.
C27_AppliedAtMostOnce == \A id \in 1..Len(objects) : Cardinality(Bakes(id)) <= 1

\* C27: a save whose Document.save failed was followed by another save, and an annotation
\* that is still a draft is in the document twice
C27_BakedTwice ==
    /\ event.type = "save"
    /\ \E id \in SeqRange(event.before.draft_annotations) : Cardinality(Bakes(id)) = 2

\* ---- C28 ----
\* C28: after every completed operation the view's annotation list is exactly the draft
\* annotations of the current page, in the same order; an annotation whose deletion was
\* confirmed is in neither list.
C28_ViewListIsDraftsOfPage ==
    /\ label_annotations = annotations_of_page(current_page)
    /\ event.type = "delete annotation"
          => /\ event.before.annotation \notin SeqRange(label_annotations)
             /\ event.before.annotation \notin SeqRange(draft_annotations)

\* C28: an annotation was deleted from the context menu and is still a draft annotation
C28_DeletedStillDraft ==
    /\ event.type = "delete annotation"
    /\ event.before.annotation \in SeqRange(draft_annotations)
    /\ event.before.annotation \notin SeqRange(label_annotations)

\* C28: an annotation deleted from the context menu has been written by a later save
C28_DeletedWritten ==
    /\ event.type = "save"
    /\ \E id \in SeqRange(event.before.draft_annotations) :
          /\ id \notin SeqRange(event.before.label_annotations)
          /\ objects[id].page_num = current_page
          /\ \E k \in 1..Len(written) : written[k].annotation = id

\* ---- C29 ----
\* a page was deleted in the window that the last Confirm was pressed in
DeletedInWindow == \E i \in 1..Len(event.before.ops) : event.before.ops[i][1] = "delete"

\* C29: Confirm in an All Pages window removes only draft annotations on pages deleted in
\* that window, whatever was done in the editor while the window was open: an annotation
\* is removed only when a page was deleted in the window and its page is not in the
\* confirmed document, and every other annotation is on the page it was placed on.
C29_ConfirmRemovesOnlyDeleted ==
    event.type = "confirm"
        => \A id \in DraftsBefore :
              IF id \in Drafts
              THEN /\ objects[id].page_num + 1 \in DOMAIN doc
                   /\ doc[objects[id].page_num + 1] = event.before.doc[PageBefore(id) + 1]
              ELSE /\ DeletedInWindow
                   /\ event.before.doc[PageBefore(id) + 1] \notin SeqRange(doc)

\* C29: Confirm was pressed in a window in which nothing was reordered or deleted, and a
\* draft annotation placed while the window was open has been removed
C29_RemovedWithoutDelete ==
    /\ event.type = "confirm"
    /\ event.before.ops = <<>>
    /\ \E id \in DraftsBefore : id \notin Drafts

\* ---- C30 ----
\* C30: with a document open, current_page and the page index of every draft annotation are
\* valid page indices of the document (0 <= index < page count).
C30_PageIndicesValid ==
    doc # <<>>
        => /\ 0 <= current_page /\ current_page < Len(doc)
           /\ \A id \in Drafts : 0 <= objects[id].page_num /\ objects[id].page_num < Len(doc)

\* C30 witness: Confirm has been pressed in a window in which a page was deleted, the
\* editor was on its last page and a draft annotation was on a page that then no longer
\* exists as an index of the confirmed document
C30_ConfirmedShorterDocument ==
    /\ event.type = "confirm"
    /\ DeletedInWindow
    /\ \E id \in DraftsBefore : PageBefore(id) >= Len(doc)
====
